---- MODULE Spec2Model ----
(***************************************************************************)
(* Model of the registry-PDF parser of src/lib/pdf-parser.ts (kept in      *)
(* src/unnamed/part_000, lines 565-1098) and of its caller, the            *)
(* /api/parse route.                                                       *)
(*                                                                         *)
(* Text is a sequence of symbols.  TLA+ strings are ASCII, so each Korean  *)
(* morpheme of the source's patterns is one romanised symbol:              *)
(*   "[[" = 【        "]]" = 】        "gap" = 갑      "gu"  = 구           *)
(*   "eul" = 을       "mae" = 매      "mok" = 목      "rok" = 록           *)
(*   "soyu" = 소유   "gwon" = 권   "bojon" = 보존   "ijeon" = 이전           *)
(*   "ga" = 가   "amnyu" = 압류   "cheobun" = 처분                         *)
(*   "imui" = 임의   "gangje" = 강제   "gyeongmae" = 경매                  *)
(*   "gaesi" = 개시   "gyeoljeong" = 결정                                  *)
(*   "deunggi" = 등기   "malso" = 말소   "sahang" = 사항                   *)
(*   "juyo" = 주요   "yoyak" = 요약   "chullyeogilsi" = 출력일시           *)
(*   "geun" = 근   "jeodang" = 저당   "jil" = 질   "gong" = 공             *)
(*   "seoljeong" = 설정   "jutaek" = 주택   "imcha" = 임차                 *)
(*   "jeonse" = 전세   "ja" = 자                                           *)
(*   "chaegwon" = 채권   "chaemu" = 채무                                   *)
(*   "cheonggu" = 청구   "geumaek" = 금액   "choego" = 최고   "aek" = 액   *)
(*   "bojeung" = 보증   "geum" = 금   "won" = 원   "beon" = 번             *)
(*   "cha" = 차   "im" = 임   "nyeon" = 년   "wol" = 월   "il" = 일        *)
(*   "je" = 제   "ho" = 호                                                 *)
(*   "goyubeonho" = 고유번호   "jiphap" = 집합   "geonmul" = 건물          *)
(*   "ji" = 지   "ha" = 하   "oktap" = 옥탑   "cheung" = 층   "m2" = ㎡      *)
(*   "yeonmyeonjeok" = 연면적   "jeoe" = 제외                              *)
(*   "toji" = 토지                                                         *)
(*   "dae" = 대   "gyeyak" = 계약   "ilja" = 일자   "jumin" = 주민         *)
(*   "deungnok" = 등록   "jeomyu" = 점유   "hwakjeong" = 확정              *)
(*   "hwanmae" = 환매   "teugyak" = 특약  (a registration type that is     *)
(*   not among the keywords of either row pattern)                         *)
(* Digits, "-", "*", ",", ".", "%", "[", "]", " " and "\n" stand for       *)
(* themselves; every                                                       *)
(* other symbol ("hong", "gil", "dong", "seo", "ul", ...) is one Hangul    *)
(* character that no pattern of the source names.                          *)
(*                                                                         *)
(* An optional value (a field that may be undefined) is a sequence of      *)
(* length 0 (undefined) or 1.  Positions are 1-based; a matcher returns    *)
(* the position after the match, or 0 when it fails.                       *)
(***************************************************************************)
EXTENDS Integers, Sequences, FiniteSets, TLC

None == <<>>

Some(v) == <<v>>

Digits == {"0", "1", "2", "3", "4", "5", "6", "7", "8", "9"}

IsDigit(c) == c \in Digits

IsSpace(c) == c \in {" ", "\n"}

DigitVal(c) ==
  CASE c = "0" -> 0 [] c = "1" -> 1 [] c = "2" -> 2 [] c = "3" -> 3
    [] c = "4" -> 4 [] c = "5" -> 5 [] c = "6" -> 6 [] c = "7" -> 7
    [] c = "8" -> 8 [] c = "9" -> 9

Min(a, b) == IF a < b THEN a ELSE b

\* s.substring(from - 1, to - 1): the symbols at positions from .. to - 1.
Sub(s, from, to) == SubSeq(s, from, to - 1)

\* The literal lit stands at position i of t.
LitAt(t, i, lit) ==
  /\ i >= 1
  /\ i + Len(lit) - 1 <= Len(t)
  /\ \A k \in 1..Len(lit) : t[i + k - 1] = lit[k]

\* String.prototype.includes
Includes(t, lit) == \E i \in 1..Len(t) : LitAt(t, i, lit)

\* The end of the longest run of symbols of class cls starting at i (greedy X*).
RECURSIVE RunEnd(_, _, _)
RunEnd(t, i, cls) ==
  IF i <= Len(t) /\ t[i] \in cls THEN RunEnd(t, i + 1, cls) ELSE i

Spaces == {" ", "\n"}

\* \s* at i
SkipSpaces(t, i) == RunEnd(t, i, Spaces)

\* The literals of lits in order with \s* before each but the first
\* (a pattern such as 갑\s*구): the position after the last, or 0.
RECURSIVE SpacedAt(_, _, _)
SpacedAt(t, i, lits) ==
  IF lits = <<>> THEN i
  ELSE IF LitAt(t, i, Head(lits))
       THEN IF Len(lits) = 1 THEN i + Len(Head(lits))
            ELSE SpacedAt(t, SkipSpaces(t, i + Len(Head(lits))), Tail(lits))
       ELSE 0

\* The least element of a non-empty set of integers.
Least(S) == CHOOSE x \in S : \A y \in S : x <= y

\* String.prototype.trim
RECURSIVE TrimLeft(_)
TrimLeft(s) == IF s # <<>> /\ IsSpace(Head(s)) THEN TrimLeft(Tail(s)) ELSE s

RECURSIVE TrimRight(_)
TrimRight(s) ==
  IF s # <<>> /\ IsSpace(s[Len(s)]) THEN TrimRight(SubSeq(s, 1, Len(s) - 1)) ELSE s

Trim(s) == TrimRight(TrimLeft(s))

(***************************************************************************)
(* Literals of the source's patterns.                                      *)
(***************************************************************************)
HeadingA == <<<<"[[">>, <<"gap">>, <<"gu">>, <<"]]">>>>

HeadingB == <<<<"[[">>, <<"eul">>, <<"gu">>, <<"]]">>>>

HeadingTrade ==
  <<<<"[[">>, <<"mae">>, <<"mae">>, <<"mok">>, <<"rok">>, <<"]]">>>>

HeadingSummary == <<<<"juyo">>, <<"deunggi", "sahang">>, <<"yoyak">>>>

PrintedAt == <<"chullyeogilsi">>

\* The registration types of the 갑구 row pattern, in the pattern's order.
KeywordsA ==
  << <<"soyu", "gwon", "bojon">>,
     <<"soyu", "gwon", "ijeon">>,
     <<"ga", "amnyu">>,
     <<"amnyu">>,
     <<"gyeongmae", "gaesi", "gyeoljeong">>,
     <<"imui", "gyeongmae", "gaesi", "gyeoljeong">>,
     <<"gangje", "gyeongmae", "gaesi", "gyeoljeong">>,
     <<"ga", "cheobun">>,
     <<"deunggi", "malso">>,
     <<"soyu", "gwon", "ijeon", "deunggi", "malso">> >>

\* The registration types of the 을구 row pattern, in the pattern's order.
KeywordsB ==
  << <<"geun", "jeodang", "gwon", "seoljeong">>,
     <<"geun", "jeodang", "gwon", "ijeon">>,
     <<"geun", "jil", "gwon", "seoljeong">>,
     <<"jutaek", "imcha", "gwon">>,
     <<"jeonse", "gwon", "seoljeong">>,
     <<"jeodang", "gwon", "seoljeong">>,
     <<"imcha", "gwon", "seoljeong">> >>

Malso == <<"malso">>

\* parseInt(digits, 10) of a string with no digit.
NaN == -1

\* The value of a run of decimal digits.
RECURSIVE DecimalValue(_)
DecimalValue(ds) ==
  IF ds = <<>> THEN 0
  ELSE 10 * DecimalValue(SubSeq(ds, 1, Len(ds) - 1)) + DigitVal(ds[Len(ds)])

\* s.replace(/,/g, '')
RemoveCommas(s) == SelectSeq(s, LAMBDA c : c # ",")

\* parseInt(s, 10) for s of digits only
ParseInt(s) == IF s = <<>> THEN NaN ELSE DecimalValue(s)

DigitsOrComma == Digits \cup {","}

\* /금\s*([\d,]+)\s*원/ at position i: the positions <<from, to>> of group 1, or <<>>.
AmountAt(t, i) ==
  LET j == SkipSpaces(t, i + 1)
      k == RunEnd(t, j, DigitsOrComma)
      w == SkipSpaces(t, k)
  IN IF LitAt(t, i, <<"geum">>) /\ k > j /\ LitAt(t, w, <<"won">>)
     THEN <<j, k>> ELSE <<>>

parseAmount(text) ==
  IF text = <<>> THEN None
  ELSE LET hits == {i \in 1..Len(text) : AmountAt(text, i) # <<>>}
       IN IF hits = {} THEN None
          ELSE LET g == AmountAt(text, Least(hits))
               IN Some(ParseInt(RemoveCommas(Sub(text, g[1], g[2]))))

\* 금[\d,]+원 at position j: the position after 원, or 0.
GeumWonAt(t, j) ==
  LET k == RunEnd(t, j + 1, DigitsOrComma)
  IN IF LitAt(t, j, <<"geum">>) /\ k > j + 1 /\ LitAt(t, k, <<"won">>)
     THEN k + 1 ELSE 0

\* label\s*(금[\d,]+원) at position i: the position after 원, or 0.
LabelledAmountAt(t, i, label) ==
  IF LitAt(t, i, label) THEN GeumWonAt(t, SkipSpaces(t, i + Len(label))) ELSE 0

\* fullMatch.match(/label\s*(금[\d,]+원)/)?.[1] || ''
LabelledAmount(t, label) ==
  LET hits == {i \in 1..Len(t) : LabelledAmountAt(t, i, label) # 0}
  IN IF hits = {} THEN <<>>
     ELSE LET i == Least(hits)
          IN Sub(t, SkipSpaces(t, i + Len(label)), LabelledAmountAt(t, i, label))

(***************************************************************************)
(* Sections and rows.                                                      *)
(***************************************************************************)
\* \d+(?:-\d+)? at position i: the position after it, or 0.
RankEnd(t, i) ==
  LET d == RunEnd(t, i, Digits)
      e == RunEnd(t, d + 1, Digits)
  IN IF d = i THEN 0
     ELSE IF LitAt(t, d, <<"-">>) /\ e > d + 1 THEN e
     ELSE d

\* The index in kws of the first alternative that stands at position i, or 0.
KeywordAt(t, i, kws) ==
  LET hits == {k \in 1..Len(kws) : LitAt(t, i, kws[k])}
  IN IF hits = {} THEN 0 ELSE Least(hits)

\* \n\d+(?:-\d+)?\s+ at position e
NextRowAt(t, e) ==
  LET r == RankEnd(t, e + 1)
  IN LitAt(t, e, <<"\n">>) /\ r # 0 /\ r <= Len(t) /\ IsSpace(t[r])

\* The lookahead that ends a 갑구 row: (?=\n\d+(?:-\d+)?\s+|\n【|\n\s*$)
RowEndA(t, e) ==
  \/ NextRowAt(t, e)
  \/ LitAt(t, e, <<"\n", "[[">>)
  \/ LitAt(t, e, <<"\n">>) /\ SkipSpaces(t, e + 1) = Len(t) + 1

\* The lookahead that ends a 을구 row:
\* (?=\n\d+(?:-\d+)?\s+|\n【|\n출력일시|\n주요\s*등기|$)
RowEndB(t, e) ==
  \/ NextRowAt(t, e)
  \/ LitAt(t, e, <<"\n", "[[">>)
  \/ LitAt(t, e, <<"\n">> \o PrintedAt)
  \/ LitAt(t, e, <<"\n">>) /\ SpacedAt(t, e + 1, <<<<"juyo">>, <<"deunggi">>>>) # 0
  \/ e = Len(t) + 1

RowEnd(t, e, sec) == IF sec = "A" THEN RowEndA(t, e) ELSE RowEndB(t, e)

Keywords(sec) == IF sec = "A" THEN KeywordsA ELSE KeywordsB

\* The row pattern at position i: [from, to, rank, type] of the match, or <<>>.
\* (\d+(?:-\d+)?)\s+(keyword)[\s\S]*?(?=lookahead)
RowAt(t, i, sec) ==
  LET r == RankEnd(t, i)
      s == SkipSpaces(t, r)
      k == KeywordAt(t, s, Keywords(sec))
      body == s + Len(Keywords(sec)[k])
      ends == {e \in body..(Len(t) + 1) : RowEnd(t, e, sec)}
  IN IF r = 0 \/ s = r \/ k = 0 THEN <<>>
     ELSE IF ends = {} THEN <<>>
     ELSE <<[from |-> i, to |-> Least(ends), rank |-> Sub(t, i, r),
             type |-> Keywords(sec)[k]]>>

\* rowPattern.exec with lastIndex = from: the leftmost match at or after from.
RowExec(t, from, sec) ==
  LET hits == {i \in from..Len(t) : RowAt(t, i, sec) # <<>>}
  IN IF hits = {} THEN <<>> ELSE RowAt(t, Least(hits), sec)

\* The matches of the while loop, in order.
RECURSIVE Rows(_, _, _)
Rows(t, from, sec) ==
  LET m == RowExec(t, from, sec)
  IN IF m = <<>> THEN <<>> ELSE <<m[1]>> \o Rows(t, m[1].to, sec)

\* The position after a heading given as spaced literals, at position i, or 0.
HeadingAt(t, i, h) == SpacedAt(t, i, h)

\* The positions where one of the headings hs starts.
HeadingStarts(t, hs) ==
  {i \in 1..Len(t) : \E h \in hs : HeadingAt(t, i, h) # 0}

\* text.match(/heading.*?(?=stop1|stop2|...|$)/s)?.[0]: the text from the first
\* heading to the first stop after it, or to the end; <<>> when there is no heading.
SectionMatch(t, heading, stops) ==
  LET starts == HeadingStarts(t, {heading})
  IN IF starts = {} THEN <<>>
     ELSE LET a == Least(starts)
              b == HeadingAt(t, a, heading)
              e == {i \in b..Len(t) : \E h \in stops : HeadingAt(t, i, h) # 0}
          IN <<[from |-> a, to |-> IF e = {} THEN Len(t) + 1 ELSE Least(e)]>>

SectionAMatch(t) == SectionMatch(t, HeadingA, {HeadingB, HeadingTrade})

SectionBMatch(t) ==
  SectionMatch(t, HeadingB, {HeadingTrade, HeadingSummary, <<PrintedAt>>})

SectionText(t, m) == IF m = <<>> THEN <<>> ELSE Sub(t, m[1].from, m[1].to)

(***************************************************************************)
(* Fields of a row.                                                        *)
(***************************************************************************)
\* The greatest element of a non-empty set of integers.
Greatest(S) == CHOOSE x \in S : \A y \in S : x >= y

\* The end of the longest run of symbols outside excl starting at i (greedy [^...]*).
RECURSIVE RunEndNot(_, _, _)
RunEndNot(t, i, excl) ==
  IF i <= Len(t) /\ t[i] \notin excl THEN RunEndNot(t, i + 1, excl) ELSE i

\* A sequence of classes (sets of symbols) stands at position i.
ClassesAt(t, i, pat) ==
  /\ i >= 1
  /\ i + Len(pat) - 1 <= Len(t)
  /\ \A k \in 1..Len(pat) : t[i + k - 1] \in pat[k]

\* \d{6}-\*{7}
ResidentPattern ==
  [k \in 1..6 |-> Digits] \o <<{"-"}>> \o [k \in 1..7 |-> {"*"}]

\* \d{3}-\d{2}-\d{5}
BusinessPattern ==
  [k \in 1..3 |-> Digits] \o <<{"-"}>> \o [k \in 1..2 |-> Digits] \o <<{"-"}>>
    \o [k \in 1..5 |-> Digits]

\* \d{1,2} at position i: the position after it, or 0.
OneOrTwoDigits(t, i) ==
  IF i <= Len(t) /\ IsDigit(t[i])
  THEN IF i + 1 <= Len(t) /\ IsDigit(t[i + 1]) THEN i + 2 ELSE i + 1
  ELSE 0

\* \d{4}년\s*\d{1,2}월\s*\d{1,2}일 at position i: the position after it, or 0.
\* (\d{1,2} followed by a literal: taking one digit of two never helps.)
DateAt(t, i) ==
  LET m == OneOrTwoDigits(t, SkipSpaces(t, i + 5))
      d == OneOrTwoDigits(t, SkipSpaces(t, m + 1))
  IN IF /\ ClassesAt(t, i, [k \in 1..4 |-> Digits])
        /\ LitAt(t, i + 4, <<"nyeon">>)
        /\ m # 0 /\ LitAt(t, m, <<"wol">>)
        /\ d # 0 /\ LitAt(t, d, <<"il">>)
     THEN d + 1 ELSE 0

\* (\d{4}년\s*\d{1,2}월\s*\d{1,2}일)\s*제?\s*([\d]+호) at position i:
\* [date, number] or <<>>.
ReceiptAt(t, i) ==
  LET d == DateAt(t, i)
      a == SkipSpaces(t, d)
      b == IF LitAt(t, a, <<"je">>) THEN SkipSpaces(t, a + 1) ELSE a
      n == RunEnd(t, b, Digits)
  IN IF d # 0 /\ n > b /\ LitAt(t, n, <<"ho">>)
     THEN <<[date |-> Sub(t, i, d), number |-> Sub(t, b, n + 1)]>>
     ELSE <<>>

\* fullMatch.match(receipt pattern): the leftmost match, or <<>>.
ReceiptMatch(t) ==
  LET hits == {i \in 1..Len(t) : ReceiptAt(t, i) # <<>>}
  IN IF hits = {} THEN <<>> ELSE ReceiptAt(t, Least(hits))

\* label\s+([^excl]+)\s+(resident)?\s*\n?\s*([^\n addrExcl]*) at position i.
\* \s+ and the name are greedy and give back one symbol at a time until a
\* white-space symbol follows the name; what follows the name cannot fail.
PersonAt(t, i, label, nameExcl, residentPatterns, addrExcl) ==
  LET a == i + Len(label)
      bmax == SkipSpaces(t, a)
      NameEnds(b) ==
        {n \in (b + 1)..Len(t) :
           IsSpace(t[n]) /\ \A k \in b..(n - 1) : t[k] \notin nameExcl}
      bs == {b \in (a + 1)..bmax : NameEnds(b) # {}}
      b == Greatest(bs)
      n == Greatest(NameEnds(b))
      m == SkipSpaces(t, n)
      pats == {k \in 1..Len(residentPatterns) : ClassesAt(t, m, residentPatterns[k])}
      q == IF pats = {} THEN m ELSE m + Len(residentPatterns[Least(pats)])
      q1 == SkipSpaces(t, q)
      q2 == RunEndNot(t, q1, {"\n"} \cup addrExcl)
  IN IF ~LitAt(t, i, label) \/ bs = {} THEN <<>>
     ELSE <<[name |-> Trim(Sub(t, b, n)),
             residentNumber |-> IF pats = {} THEN None ELSE Some(Sub(t, m, q)),
             address |-> Some(Trim(Sub(t, q1, q2)))]>>

\* fullMatch.match(person pattern): the leftmost match, or <<>> (undefined).
PersonMatch(t, label, nameExcl, residentPatterns, addrExcl) ==
  LET hits == {i \in 1..Len(t) :
                 PersonAt(t, i, label, nameExcl, residentPatterns, addrExcl) # <<>>}
  IN IF hits = {} THEN None
     ELSE PersonAt(t, Least(hits), label, nameExcl, residentPatterns, addrExcl)

\* (\d+번[^\n]*말소) at position i: the position after the match, or 0.
CancelRefAt(t, i) ==
  LET d == RunEnd(t, i, Digits)
      e == RunEndNot(t, d + 1, {"\n"})
      ms == {m \in (d + 1)..(e - 1) : LitAt(t, m, Malso)}
  IN IF d > i /\ LitAt(t, d, <<"beon">>) /\ ms # {} THEN Greatest(ms) + 1 ELSE 0

\* fullMatch.match(/(\d+번[^\n]*말소)/)?.[1]
CancelRef(t) ==
  LET hits == {i \in 1..Len(t) : CancelRefAt(t, i) # 0}
  IN IF hits = {} THEN None
     ELSE Some(Sub(t, Least(hits), CancelRefAt(t, Least(hits))))

(***************************************************************************)
(* Title fields.                                                           *)
(***************************************************************************)
DigitsOrDash == Digits \cup {"-"}

\* text.match(/고유번호\s*([\d-]+)/): match[1], or '' without a match.
extractUniqueNumber(text) ==
  LET At(i) == SkipSpaces(text, i + 1)
      hits == {i \in 1..Len(text) :
                 /\ LitAt(text, i, <<"goyubeonho">>)
                 /\ RunEnd(text, At(i), DigitsOrDash) > At(i)}
  IN IF hits = {} THEN <<>>
     ELSE Sub(text, At(Least(hits)), RunEnd(text, At(Least(hits)), DigitsOrDash))

detectPropertyType(text) ==
  IF Includes(text, <<"jiphap", "geonmul">>) THEN "aggregate_building"
  ELSE "building"

\* \[(?:건물|집합건물)\] at position i: the position after it, or 0.
AddressTagAt(t, i) ==
  IF LitAt(t, i, <<"[", "geonmul", "]">>) THEN i + 3
  ELSE IF LitAt(t, i, <<"[", "jiphap", "geonmul", "]">>) THEN i + 4
  ELSE 0

\* \[(?:건물|집합건물)\]\s*(.+?)(?:\n|【) at position i: <<from, to>> of group 1.
\* \s* is greedy and gives back; the lazy group ends at the first \n or 【.
AddressAt(t, i) ==
  LET a == AddressTagAt(t, i)
      Ends(b) ==
        {e \in (b + 1)..RunEndNot(t, b, {"\n"}) :
           e <= Len(t) /\ t[e] \in {"\n", "[["}}
      bs == {b \in a..SkipSpaces(t, a) : Ends(b) # {}}
  IN IF a = 0 \/ bs = {} THEN <<>>
     ELSE <<Greatest(bs), Least(Ends(Greatest(bs)))>>

extractAddress(text) ==
  LET hits == {i \in 1..Len(text) : AddressAt(text, i) # <<>>}
  IN IF hits = {} THEN <<>>
     ELSE LET g == AddressAt(text, Least(hits)) IN Trim(Sub(text, g[1], g[2]))

\* The lines of text.split('\n').
RECURSIVE SplitLines(_)
SplitLines(t) ==
  LET e == RunEndNot(t, 1, {"\n"})
  IN IF e > Len(t) THEN <<t>>
     ELSE <<Sub(t, 1, e)>> \o SplitLines(SubSeq(t, e + 1, Len(t)))

DigitsCommaDot == Digits \cup {",", "."}

\* (지하?\d+층|\d+층|옥탑\d+층) at position i: the position after it, or 0.
FloorLabelAt(t, i) ==
  LET a == IF LitAt(t, i, <<"ji", "ha">>) THEN i + 2
           ELSE IF LitAt(t, i, <<"ji">>) \/ LitAt(t, i, <<"oktap">>) THEN i + 1
           ELSE i
      d == RunEnd(t, a, Digits)
  IN IF d > a /\ LitAt(t, d, <<"cheung">>) THEN d + 1 ELSE 0

\* label\s*([\d,.]+)\s*㎡ at position i: [floor, from, to] of the groups, or <<>>.
FloorAreaAt(t, i) ==
  LET f == FloorLabelAt(t, i)
      a == SkipSpaces(t, f)
      b == RunEnd(t, a, DigitsCommaDot)
  IN IF f # 0 /\ b > a /\ LitAt(t, SkipSpaces(t, b), <<"m2">>)
     THEN <<[floor |-> Sub(t, i, f), from |-> a, to |-> b]>>
     ELSE <<>>

\* The text parseFloat reads a number from: digits, then at most one point
\* and digits.  The area is kept as that text.
ParseFloatText(s) ==
  LET a == RunEnd(s, 1, Digits)
      b == IF LitAt(s, a, <<".">>) THEN RunEnd(s, a + 1, Digits) ELSE a
  IN Sub(s, 1, b)

\* One line of parseFloorAreas: the entry it pushes, or <<>>.
FloorAreaOfLine(line) ==
  LET hits == {i \in 1..Len(line) : FloorAreaAt(line, i) # <<>>}
      m == FloorAreaAt(line, Least(hits))[1]
  IN IF hits = {} THEN <<>>
     ELSE <<[floor |-> m.floor,
             area |-> ParseFloatText(RemoveCommas(Sub(line, m.from, m.to))),
             isExcluded |-> Includes(line, <<"yeonmyeonjeok", "jeoe">>)]>>

RECURSIVE FloorAreasOfLines(_)
FloorAreasOfLines(lines) ==
  IF lines = <<>> THEN <<>>
  ELSE FloorAreaOfLine(Head(lines)) \o FloorAreasOfLines(Tail(lines))

parseFloorAreas(text) == FloorAreasOfLines(SplitLines(text))

\* The fields of the title record that maskForDemo reads; the other fields
\* (address, structure, roof, floors, ...) pass through it unchanged.
parseTitleSection(text) ==
  [uniqueNumber |-> extractUniqueNumber(text),
   propertyType |-> detectPropertyType(text),
   areas |-> parseFloorAreas(text)]

(***************************************************************************)
(* Entries.  registrationCause and registrationCauseDate, leaseTerm and    *)
(* leaseArea are not part of the records below.                            *)
(***************************************************************************)
\* What a name may not hold: [^\d] in 갑구, [^\d\n] in 을구.
NameExclA == Digits

NameExclB == Digits \cup {"\n"}

\* Symbols that start with 채 or 근, and with 임, 채 or 공.
ChaeGeun == {"chaegwon", "chaemu", "geun"}

ImChaeGong == {"imcha", "imui", "im", "chaegwon", "chaemu", "gong"}

\* A flag set only by a back reference such as '3번가압류등기말소'.
IsCancelledByReference(fullMatch) == CancelRef(fullMatch) # None

\* fullMatch.includes('말소')
IsCancelled(fullMatch) == Includes(fullMatch, Malso)

\* The entry pushed for one match of the 갑구 row pattern.
SectionAEntry(t, m) ==
  LET fullMatch == Sub(t, m.from, m.to)
      receiptMatch == ReceiptMatch(fullMatch)
      isCancelled == IsCancelled(fullMatch)
  IN [rankNumber |-> m.rank,
      registrationType |-> m.type,
      receiptDate |-> IF receiptMatch = <<>> THEN <<>> ELSE receiptMatch[1].date,
      receiptNumber |-> IF receiptMatch = <<>> THEN <<>> ELSE receiptMatch[1].number,
      owner |-> PersonMatch(fullMatch, <<"soyu", "ja">>, NameExclA,
                            <<ResidentPattern>>, {}),
      owners |-> None,
      creditor |-> PersonMatch(fullMatch, <<"chaegwon", "ja">>, NameExclA,
                               <<ResidentPattern, BusinessPattern>>, {}),
      claimAmount |->
        parseAmount(LabelledAmount(fullMatch, <<"cheonggu", "geumaek">>)),
      isCancelled |-> isCancelled,
      cancellationInfo |-> IF isCancelled THEN CancelRef(fullMatch) ELSE None]

\* 차\s*임\s*월?\s*금?\s*(금[\d,]+원) at position i: <<from, to>> of group 1.
\* 금? is tried present first, then absent.
MonthlyRentAt(t, i) ==
  LET a == SpacedAt(t, i, <<<<"cha">>, <<"im">>>>)
      b == SkipSpaces(t, a)
      c == IF LitAt(t, b, <<"wol">>) THEN SkipSpaces(t, b + 1) ELSE b
      G(j) == GeumWonAt(t, j)
      c1 == SkipSpaces(t, c + 1)
  IN IF a = 0 THEN <<>>
     ELSE IF LitAt(t, c, <<"geum">>) /\ G(c1) # 0 THEN <<c1, G(c1)>>
     ELSE IF G(c) # 0 THEN <<c, G(c)>>
     ELSE <<>>

MonthlyRentText(t) ==
  LET hits == {i \in 1..Len(t) : MonthlyRentAt(t, i) # <<>>}
  IN IF hits = {} THEN <<>>
     ELSE Sub(t, MonthlyRentAt(t, Least(hits))[1], MonthlyRentAt(t, Least(hits))[2])

\* 임대차계약일자, 주민등록일자, 점유개시일자, 확정일자
ContractDateLabel == <<"im", "dae", "cha", "gyeyak", "ilja">>

ResidentRegLabel == <<"jumin", "deungnok", "ilja">>

PossessionLabel == <<"jeomyu", "gaesi", "ilja">>

FixedDateLabel == <<"hwakjeong", "ilja">>

\* label\s*(\d{4}년\s*\d{1,2}월\s*\d{1,2}일) at position i: the position
\* after the date, or 0.
LabelledDateAt(t, i, label) ==
  IF LitAt(t, i, label) THEN DateAt(t, SkipSpaces(t, i + Len(label))) ELSE 0

\* fullMatch.match(/label\s*(date)/)?.[1]: group 1 of the leftmost match.
LabelledDate(t, label) ==
  LET hits == {i \in 1..Len(t) : LabelledDateAt(t, i, label) # 0}
  IN IF hits = {} THEN None
     ELSE LET i == Least(hits)
          IN Some(Sub(t, SkipSpaces(t, i + Len(label)), LabelledDateAt(t, i, label)))

\* const leaseTerm = contractDateMatch ? { ... } : undefined
LeaseTerm(fullMatch) ==
  LET contractDateMatch == LabelledDate(fullMatch, ContractDateLabel)
  IN IF contractDateMatch # None
     THEN Some([contractDate |-> contractDateMatch[1],
                residentRegistrationDate |-> LabelledDate(fullMatch, ResidentRegLabel),
                possessionStartDate |-> LabelledDate(fullMatch, PossessionLabel),
                fixedDate |-> LabelledDate(fullMatch, FixedDateLabel)])
     ELSE None

\* The entry pushed for one match of the 을구 row pattern.
SectionBEntry(t, m) ==
  LET fullMatch == Sub(t, m.from, m.to)
      receiptMatch == ReceiptMatch(fullMatch)
  IN [rankNumber |-> m.rank,
      registrationType |-> m.type,
      receiptDate |-> IF receiptMatch = <<>> THEN <<>> ELSE receiptMatch[1].date,
      receiptNumber |->
        Some(IF receiptMatch = <<>> THEN <<>> ELSE receiptMatch[1].number),
      maxClaimAmount |->
        parseAmount(LabelledAmount(fullMatch, <<"chaegwon", "choego", "aek">>)),
      debtor |-> PersonMatch(fullMatch, <<"chaemu", "ja">>, NameExclB,
                             <<ResidentPattern, BusinessPattern>>, ChaeGeun),
      mortgagee |-> PersonMatch(fullMatch, <<"geun", "jeodang", "gwon", "ja">>,
                                NameExclB,
                                <<BusinessPattern, ResidentPattern>>, ImChaeGong),
      depositAmount |->
        parseAmount(LabelledAmount(fullMatch, <<"imcha", "bojeung", "geum">>)),
      monthlyRent |-> parseAmount(MonthlyRentText(fullMatch)),
      leaseTerm |-> LeaseTerm(fullMatch),
      lessee |-> PersonMatch(fullMatch, <<"imcha", "gwon", "ja">>,
                             NameExclB, <<ResidentPattern>>, {}),
      isCancelled |-> Some(IsCancelled(fullMatch))]

RECURSIVE EntriesOf(_, _, _)
EntriesOf(t, rows, sec) ==
  IF rows = <<>> THEN <<>>
  ELSE <<IF sec = "A" THEN SectionAEntry(t, Head(rows))
         ELSE SectionBEntry(t, Head(rows))>> \o EntriesOf(t, Tail(rows), sec)

parseSectionAEntries(text) ==
  LET sectionAText == SectionText(text, SectionAMatch(text))
  IN IF SectionAMatch(text) = <<>> THEN <<>>
     ELSE EntriesOf(sectionAText, Rows(sectionAText, 1, "A"), "A")

parseSectionBEntries(text) ==
  LET sectionBText == SectionText(text, SectionBMatch(text))
  IN IF SectionBMatch(text) = <<>> THEN <<>>
     ELSE EntriesOf(sectionBText, Rows(sectionBText, 1, "B"), "B")

\* The document parseRegistryPDF returns for an extracted text; now is the
\* clock reading of new Date().
RegistryDataOf(text, now) ==
  [uniqueNumber |-> extractUniqueNumber(text),
   propertyType |-> detectPropertyType(text),
   propertyAddress |-> extractAddress(text),
   titleInfo |-> parseTitleSection(text),
   sectionA |-> parseSectionAEntries(text),
   sectionB |-> parseSectionBEntries(text),
   rawText |-> Some(text),
   parseDate |-> now]

(***************************************************************************)
(* maskForDemo.                                                            *)
(***************************************************************************)
\* The program constant of address.substring(0, 10).
AddressKeep == 10

\* A slice that keeps every element (slice(0) for slice(0, 1)).
FirstOnlyKeepsAll(xs) == xs

\* array.slice(0, 1)
FirstOnly(xs) == IF xs = <<>> THEN <<>> ELSE <<Head(xs)>>

\* name.charAt(0) + '*' + name.slice(-1)
MaskName(name) ==
  (IF name = <<>> THEN <<>> ELSE <<name[1]>>) \o <<"*">>
    \o (IF name = <<>> THEN <<>> ELSE <<name[Len(name)]>>)

\* '******-*******'
MaskedResident == [k \in 1..6 |-> "*"] \o <<"-">> \o [k \in 1..7 |-> "*"]

\* a value that is neither undefined nor the empty string
Truthy(opt) == opt # None /\ opt[1] # <<>>

MaskOwner(o) ==
  [o EXCEPT
     !.name = MaskName(o.name),
     !.residentNumber = IF Truthy(o.residentNumber) THEN Some(MaskedResident)
                        ELSE None,
     !.address = IF Truthy(o.address)
                 THEN Some(SubSeq(o.address[1], 1, Min(AddressKeep, Len(o.address[1])))
                           \o <<".", ".", ".">>)
                 ELSE None]

\* entry => ({ ...entry, owners: (entry.owners ?? []).map(...) })
MaskEntryA(entry) ==
  LET owners == IF entry.owners = None THEN <<>> ELSE entry.owners[1]
  IN [entry EXCEPT !.owners = Some([k \in 1..Len(owners) |-> MaskOwner(owners[k])])]

\* entry => ({ rankNumber, registrationType, receiptDate, and undefined fields })
MaskEntryB(entry) ==
  [rankNumber |-> entry.rankNumber,
   registrationType |-> entry.registrationType,
   receiptDate |-> entry.receiptDate,
   receiptNumber |-> None,
   maxClaimAmount |-> None,
   debtor |-> None,
   mortgagee |-> None,
   depositAmount |-> None,
   monthlyRent |-> None,
   leaseTerm |-> None,
   lessee |-> None,
   isCancelled |-> None]

\* maskForDemo without the propertyAddress line of its result.
maskForDemoDropsAddress(data) ==
  [uniqueNumber |-> data.uniqueNumber,
   propertyType |-> data.propertyType,
   propertyAddress |-> <<>>,
   titleInfo |-> [data.titleInfo EXCEPT !.areas = FirstOnly(data.titleInfo.areas)],
   sectionA |-> [k \in 1..Len(FirstOnly(data.sectionA)) |-> MaskEntryA(data.sectionA[k])],
   sectionB |-> [k \in 1..Len(FirstOnly(data.sectionB)) |-> MaskEntryB(data.sectionB[k])],
   rawText |-> None,
   parseDate |-> data.parseDate]

maskForDemo(data) ==
  [uniqueNumber |-> data.uniqueNumber,
   propertyType |-> data.propertyType,
   propertyAddress |-> data.propertyAddress,
   titleInfo |-> [data.titleInfo EXCEPT !.areas = FirstOnly(data.titleInfo.areas)],
   sectionA |-> [k \in 1..Len(FirstOnly(data.sectionA)) |-> MaskEntryA(data.sectionA[k])],
   sectionB |-> [k \in 1..Len(FirstOnly(data.sectionB)) |-> MaskEntryB(data.sectionB[k])],
   rawText |-> None,
   parseDate |-> data.parseDate]

(***************************************************************************)
(* Text extraction.                                                        *)
(***************************************************************************)
\* decodeURIComponent of one symbol: "%20" is an escape sequence (of a
\* space); "%" is a malformed escape sequence, for which it throws URIError.
DecodeSymbol(c) == IF c = "%20" THEN " " ELSE c

decodeURIComponent(run) == [k \in 1..Len(run) |-> DecodeSymbol(run[k])]

DecodeThrows(run) == \E k \in 1..Len(run) : run[k] = "%"

PageBreak ==
  <<"\n", "-", "-", "-", " ", "PAGE", " ", "BREAK", " ", "-", "-", "-", "\n">>

\* for (const t of item.R || []) texts.push(decodeURIComponent(t.T || ''))
RECURSIVE ItemText(_)
ItemText(runs) ==
  IF runs = <<>> THEN <<>>
  ELSE decodeURIComponent(Head(runs)) \o ItemText(Tail(runs))

\* for (const item of page.Texts || []) { ...; texts.push('\n') }
RECURSIVE PageText(_)
PageText(items) ==
  IF items = <<>> THEN <<>>
  ELSE ItemText(Head(items)) \o <<"\n">> \o PageText(Tail(items))

\* The text the pdfParser_dataReady handler resolves with.
RECURSIVE Pdf2jsonText(_)
Pdf2jsonText(pages) ==
  IF pages = <<>> THEN <<>>
  ELSE PageText(Head(pages)) \o PageBreak \o Pdf2jsonText(Tail(pages))

\* The handler throws when some run of the document does not decode.
HandlerThrows(pages) ==
  \E p \in 1..Len(pages) : \E i \in 1..Len(pages[p]) :
    \E r \in 1..Len(pages[p][i]) : DecodeThrows(pages[p][i][r])

\* data.text of pdf-parse: the items of a page one per line, pages
\* separated by an empty line, and no escape sequences.
RECURSIVE JoinLines(_)
JoinLines(items) ==
  IF items = <<>> THEN <<>>
  ELSE IF Len(items) = 1 THEN ItemText(Head(items))
  ELSE ItemText(Head(items)) \o <<"\n">> \o JoinLines(Tail(items))

RECURSIVE PdfParseText(_)
PdfParseText(pages) ==
  IF pages = <<>> THEN <<>>
  ELSE IF Len(pages) = 1 THEN JoinLines(Head(pages))
  ELSE JoinLines(Head(pages)) \o <<"\n", "\n">> \o PdfParseText(Tail(pages))

(***************************************************************************)
(* Inputs: the text items of an uploaded PDF.  An item is a sequence of    *)
(* runs (item.R), a run the symbols of its T.                              *)
(***************************************************************************)
\* 고유번호 12-3 [집합건물] 서울
ItemTitle ==
  << <<"goyubeonho", " ", "1", "2", "-", "3", " ", "[", "jiphap", "geonmul", "]",
       " ", "seo", "ul">> >>

\* 【갑구】
ItemHeadA == << <<"[[", "gap", "gu", "]]">> >>

\* 【 을 구 】
ItemHeadB == << <<"[[", "%20", "eul", "%20", "gu", "%20", "]]">> >>

\* 1 소유권보존 소유자 홍길동 800101-******* 서울특별시강남구역삼동길
ItemOwnerRow ==
  << <<"1", " ", "soyu", "gwon", "bojon", " ", "soyu", "ja", " ">>,
     <<"hong", "gil", "dong", " ", "8", "0", "0", "1", "0", "1", "-",
       "*", "*", "*", "*", "*", "*", "*", " ">>,
     <<"seo", "ul", "teuk", "byeol", "si", "gang", "nam", "gu", "yeok", "sam",
       "dong", "gil">> >>

\* 2 가압류 채권자 김철수 청구금액 금5,000원 3번가압류등기말소
ItemClaimRow ==
  << <<"2", " ", "ga", "amnyu", " ", "chaegwon", "ja", " ", "kim", "cheol", "su",
       " ", "cheonggu", "geumaek", " ", "geum", "5", ",", "0", "0", "0", "won",
       " ", "3", "beon", "ga", "amnyu", "deunggi", "malso">> >>

\* 3 환매특약
ItemUnknownRow == << <<"3", "%20", "hwanmae", "teugyak">> >>

\* 1 근저당권설정 채권최고액 금9,000원 채무자 이영희 서울
ItemMortgageRow ==
  << <<"1", " ", "geun", "jeodang", "gwon", "seoljeong", " ", "chaegwon",
       "choego", "aek", " ", "geum", "9", ",", "0", "0", "0", "won", " ",
       "chaemu", "ja", " ", "lee", "yeong", "hui", " ", "seo", "ul">> >>

\* 100% (a percent sign that starts no escape sequence)
ItemPercent == << <<"1", "0", "0", "%">> >>

Items ==
  {ItemTitle, ItemHeadA, ItemHeadB, ItemOwnerRow, ItemClaimRow, ItemUnknownRow,
   ItemMortgageRow, ItemPercent}

\* The most text items of an uploaded PDF.
MaxItems == 3

ItemSeqs == UNION {[1..k -> Items] : k \in 0..MaxItems}

\* [건물] 서울
ItemBuilding == << <<"[", "geonmul", "]", " ", "seo", "ul">> >>

\* [토지] 서울
ItemLand == << <<"[", "toji", "]", " ", "seo", "ul">> >>

\* 주요 등기사항 요약
ItemSummary == << <<"juyo", " ", "deunggi", "sahang", " ", "yoyak">> >>

\* 특약 2 압류 (a line that does not start with a rank number)
ItemContinuation == << <<"teugyak", " ", "2", " ", "amnyu">> >>

\* 2 주택임차권 주민등록일자 2020년 1월 2일
ItemLeaseRow ==
  << <<"2", " ", "jutaek", "imcha", "gwon", " ", "jumin", "deungnok", "ilja",
       " ", "2", "0", "2", "0", "nyeon", " ", "1", "wol", " ", "2", "il">> >>

\* 3 소유권이전등기말소
ItemCancelRow ==
  << <<"3", " ", "soyu", "gwon", "ijeon", "deunggi", "malso">> >>

\* 4 등기말소
ItemDeregRow == << <<"4", " ", "deunggi", "malso">> >>

\* The text items of a PDF uploaded to the demo endpoint.
DemoItems ==
  {ItemTitle, ItemBuilding, ItemLand, ItemHeadA, ItemHeadB, ItemOwnerRow,
   ItemMortgageRow, ItemUnknownRow, ItemSummary, ItemContinuation,
   ItemLeaseRow, ItemCancelRow, ItemDeregRow}

\* The most text items of a PDF uploaded to the demo endpoint.
MaxDemoItems == 3

DemoItemSeqs == UNION {[1..k -> DemoItems] : k \in 0..MaxDemoItems}

\* The clock readings of new Date().toISOString().
Times == {"t1"}

(***************************************************************************)
(* One call of parseAndProcessPDF, a step per await.                       *)
(***************************************************************************)
VARIABLES
  pc,            \* where the call stands
  pages,         \* pdfData.Pages of the uploaded buffer
  isPaid,        \* argument
  webhookUrl,    \* argument: TRUE when a URL was given
  extractors,    \* the extractors that have failed so far
  text,          \* the extracted text, once there is one
  fullData,      \* the document parseRegistryPDF returned
  error,         \* the error caught by parseAndProcessPDF
  webhookCalls,  \* the arguments of the sendWebhook calls made
  webhookResult, \* what the last sendWebhook resolved to
  response,      \* the ParseResponse returned
  calls,         \* the locals of the parseAndProcessPDF calls in flight together
  gtTokens,      \* benchmark: the Counter of the ground-truth tokens
  parserTokens,  \* benchmark: the Counter of the parser tokens
  history,       \* benchmark: the records of benchmark-history.json
  amountText,    \* parseAmount: the argument
  amount,        \* parseAmount: what the call returned, once it has
  request,       \* /api/parse: the request received
  routePc,       \* /api/parse: where the handler stands
  httpResponse,  \* /api/parse: the NextResponse returned
  storage,       \* ApiClient: the tokens in localStorage
  inflight,      \* ApiClient: the requests sent and not yet answered
  loggedIn,      \* ApiClient: a login succeeded, no logout or 401 since
  lastCall,      \* ApiClient: the last api call that ended, and how
  location,      \* ApiClient: window.location.href
  searchParams,  \* payment success page: the query parameters of the URL
  successPc,     \* payment success page: where confirmPayment stands
  status,        \* payment success page: the state 'status'
  errorMessage,  \* payment success page: the state 'errorMessage'
  confirmCalls,  \* payment success page: the arguments of api.confirmPayment
  settled,       \* payment success page: the awaited calls that resolved
  user,          \* pricing page: the user of useAuth, if authenticated
  tossReady,     \* pricing page: the state 'tossReady'
  clientKeyRef,  \* pricing page: clientKeyRef.current
  processingPlan,\* pricing page: the state 'processingPlan'
  attempts,      \* pricing page: the handleSelectPlan calls awaiting
  createCalls,   \* pricing page: the api.createPayment calls made
  router,        \* pricing page: the path the router shows
  alerts,        \* pricing page: the messages shown with alert()
  logged,        \* pricing page: what was written to the console
  original,      \* maskForDemo: the document masked first
  maskings       \* maskForDemo: the results of the successive calls

\* The variables of one call, of the calls in flight together, of the benchmark.
callVars ==
  <<pc, pages, isPaid, webhookUrl, extractors, text, fullData, error,
    webhookCalls, webhookResult, response>>

benchVars == <<gtTokens, parserTokens, history>>

\* The variables of the components beside the parser and the benchmark.
amountVars == <<amountText, amount>>

routeVars == <<request, routePc, httpResponse>>

clientVars == <<storage, inflight, loggedIn, lastCall, location>>

successVars ==
  <<searchParams, successPc, status, errorMessage, confirmCalls, settled>>

pricingVars ==
  <<user, tossReady, clientKeyRef, processingPlan, attempts, createCalls,
    router, alerts, logged>>

maskVars == <<original, maskings>>

restVars ==
  <<amountVars, routeVars, clientVars, successVars, pricingVars, maskVars>>

\* The parser and the benchmark.
processVars == <<callVars, calls, benchVars>>

\* What a step of one component leaves alone.
notAmountVars ==
  <<processVars, routeVars, clientVars, successVars, pricingVars,
    maskVars>>

notRouteVars ==
  <<calls, benchVars, amountVars, clientVars, successVars, pricingVars,
    maskVars>>

notClientVars ==
  <<processVars, amountVars, routeVars, successVars, pricingVars,
    maskVars>>

notSuccessVars ==
  <<processVars, amountVars, routeVars, clientVars, pricingVars, maskVars>>

notPricingVars ==
  <<processVars, amountVars, routeVars, clientVars, successVars, maskVars>>

notMaskVars ==
  <<processVars, amountVars, routeVars, clientVars, successVars, pricingVars>>

vars == <<callVars, calls, benchVars, restVars>>

\* The components beside the parser and the benchmark before anything happens.
AmountIdle ==
  /\ amountText = <<>>
  /\ amount = None

RouteIdle ==
  /\ request = None
  /\ routePc = "idle"
  /\ httpResponse = None

\* No token stored, no request sent.
ClientIdle ==
  /\ storage = [access_token |-> None, refresh_token |-> None]
  /\ inflight = [login |-> 0, other |-> 0]
  /\ loggedIn = FALSE
  /\ lastCall = None
  /\ location = "/"

SuccessIdle ==
  /\ searchParams = [paymentKey |-> None, orderId |-> None, amount |-> None]
  /\ successPc = "unmounted"
  /\ status = "loading"
  /\ errorMessage = ""
  /\ confirmCalls = <<>>
  /\ settled = {}

PricingIdle ==
  /\ user = None
  /\ tossReady = FALSE
  /\ clientKeyRef = None
  /\ processingPlan = None
  /\ attempts = {}
  /\ createCalls = <<>>
  /\ router = "/"
  /\ alerts = <<>>
  /\ logged = <<>>

MaskIdle ==
  /\ original = None
  /\ maskings = <<>>

RestIdle ==
  /\ AmountIdle
  /\ RouteIdle
  /\ ClientIdle
  /\ SuccessIdle
  /\ PricingIdle
  /\ MaskIdle

\* The message of the error thrown: 'PDF 텍스트 추출에 실패했습니다.'
ExtractionError == "PDF text extraction failed"

Init ==
  /\ pc = "idle"
  /\ pages = <<>>
  /\ isPaid = FALSE
  /\ webhookUrl = FALSE
  /\ extractors = {}
  /\ text = None
  /\ fullData = None
  /\ error = None
  /\ webhookCalls = <<>>
  /\ webhookResult = None
  /\ response = None
  /\ calls = <<>>
  /\ gtTokens = <<>>
  /\ parserTokens = <<>>
  /\ history = <<>>
  /\ RestIdle

\* parseAndProcessPDF(pdfBuffer, isPaid, webhookUrl) up to pdfParser.parseBuffer
Call ==
  /\ pc = "idle"
  /\ \E items \in ItemSeqs : pages' = <<items>>
  /\ isPaid' \in BOOLEAN
  /\ webhookUrl' \in BOOLEAN
  /\ pc' = "pdf2json"
  /\ UNCHANGED <<extractors, text, fullData, error, webhookCalls, webhookResult,
                 response>>
  /\ UNCHANGED <<calls, benchVars, restVars>>

\* pdfParser_dataReady: the handler resolves the promise with the joined text.
Pdf2jsonDataReady ==
  /\ pc = "pdf2json"
  /\ ~HandlerThrows(pages)
  /\ text' = Some(Pdf2jsonText(pages))
  /\ pc' = "extracted"
  /\ UNCHANGED <<pages, isPaid, webhookUrl, extractors, fullData, error,
                 webhookCalls, webhookResult, response>>
  /\ UNCHANGED <<calls, benchVars, restVars>>

\* pdfParser_dataReady with a run that does not decode: decodeURIComponent
\* throws inside the handler, which neither resolves nor rejects the promise.
Pdf2jsonHandlerThrows ==
  /\ pc = "pdf2json"
  /\ HandlerThrows(pages)
  /\ pc' = "pending"
  /\ UNCHANGED <<pages, isPaid, webhookUrl, extractors, text, fullData, error,
                 webhookCalls, webhookResult, response>>
  /\ UNCHANGED <<calls, benchVars, restVars>>

\* A catch block that throws at once instead of trying pdf-parse.
Pdf2jsonDataErrorRethrown ==
  /\ pc = "pdf2json"
  /\ extractors' = extractors \cup {"pdf2json"}
  /\ error' = Some(ExtractionError)
  /\ pc' = "caught"
  /\ UNCHANGED <<pages, isPaid, webhookUrl, text, fullData, webhookCalls,
                 webhookResult, response>>
  /\ UNCHANGED <<calls, benchVars, restVars>>

\* pdfParser_dataError: the promise rejects and the catch block tries pdf-parse.
Pdf2jsonDataError ==
  /\ pc = "pdf2json"
  /\ extractors' = extractors \cup {"pdf2json"}
  /\ pc' = "pdfparse"
  /\ UNCHANGED <<pages, isPaid, webhookUrl, text, fullData, error, webhookCalls,
                 webhookResult, response>>
  /\ UNCHANGED <<calls, benchVars, restVars>>

\* const data = await parseFn(pdfBuffer); text = data.text
PdfParseOk ==
  /\ pc = "pdfparse"
  /\ text' = Some(PdfParseText(pages))
  /\ pc' = "extracted"
  /\ UNCHANGED <<pages, isPaid, webhookUrl, extractors, fullData, error,
                 webhookCalls, webhookResult, response>>
  /\ UNCHANGED <<calls, benchVars, restVars>>

\* pdf-parse fails too: parseRegistryPDF throws, parseAndProcessPDF catches.
PdfParseFail ==
  /\ pc = "pdfparse"
  /\ extractors' = extractors \cup {"pdf-parse"}
  /\ error' = Some(ExtractionError)
  /\ pc' = "caught"
  /\ UNCHANGED <<pages, isPaid, webhookUrl, text, fullData, webhookCalls,
                 webhookResult, response>>
  /\ UNCHANGED <<calls, benchVars, restVars>>

\* The rest of parseRegistryPDF: the document of the extracted text.
ParseText ==
  /\ pc = "extracted"
  /\ \E now \in Times : fullData' = Some(RegistryDataOf(text[1], now))
  /\ pc' = "parsed"
  /\ UNCHANGED <<pages, isPaid, webhookUrl, extractors, text, error, webhookCalls,
                 webhookResult, response>>
  /\ UNCHANGED <<calls, benchVars, restVars>>

\* What fetch may do with a webhook: respond 2xx, respond otherwise, or throw.
Deliveries == {"ok", "not_ok", "network_error"}

\* sendWebhook resolves to response.ok, and to false when fetch throws.
sendWebhook(delivery) == delivery = "ok"

\* The body sendWebhook posts for (data, isSuccess).
WebhookPayload(data, isSuccess) ==
  [event |-> IF isSuccess THEN "parsing.completed" ELSE "parsing.failed",
   status |-> IF isSuccess THEN "success" ELSE "failed",
   summary |-> IF isSuccess THEN Some(data) ELSE None,
   error |-> IF isSuccess THEN None ELSE Some("Parsing failed")]

\* A sendWebhook without its try/catch: when fetch throws, the error lands in
\* the catch block of parseAndProcessPDF.
SendWebhookCompletedThrowing ==
  /\ pc = "parsed"
  /\ webhookUrl
  /\ webhookCalls' =
       Append(webhookCalls,
              [data |-> IF isPaid THEN fullData[1] ELSE maskForDemo(fullData[1]),
               isSuccess |-> TRUE])
  /\ \E d \in Deliveries :
       IF d = "network_error"
       THEN /\ error' = Some("fetch failed")
            /\ pc' = "caught"
            /\ UNCHANGED webhookResult
       ELSE /\ webhookResult' = Some(sendWebhook(d))
            /\ pc' = "notified"
            /\ UNCHANGED error
  /\ UNCHANGED <<pages, isPaid, webhookUrl, extractors, text, fullData, response>>
  /\ UNCHANGED <<calls, benchVars, restVars>>

\* if (webhookUrl) await sendWebhook(webhookUrl, requestId,
\*                                   isPaid ? fullData : maskForDemo(fullData), true)
SendWebhookCompleted ==
  /\ pc = "parsed"
  /\ webhookUrl
  /\ webhookCalls' =
       Append(webhookCalls,
              [data |-> IF isPaid THEN fullData[1] ELSE maskForDemo(fullData[1]),
               isSuccess |-> TRUE])
  /\ \E d \in Deliveries : webhookResult' = Some(sendWebhook(d))
  /\ pc' = "notified"
  /\ UNCHANGED <<pages, isPaid, webhookUrl, extractors, text, fullData, error,
                 response>>
  /\ UNCHANGED <<calls, benchVars, restVars>>

\* A try block whose response carries the full document whoever calls.
SuccessResponseUnmasked ==
  [success |-> TRUE, data |-> fullData, error |-> None, isDemo |-> ~isPaid]

\* The response of the try block.
SuccessResponse ==
  [success |-> TRUE,
   data |-> IF isPaid THEN fullData ELSE Some(maskForDemo(fullData[1])),
   error |-> None,
   isDemo |-> ~isPaid]

ReturnSuccess ==
  /\ pc = IF webhookUrl THEN "notified" ELSE "parsed"
  /\ response' = Some(SuccessResponse)
  /\ pc' = "done"
  /\ UNCHANGED <<pages, isPaid, webhookUrl, extractors, text, fullData, error,
                 webhookCalls, webhookResult>>
  /\ UNCHANGED <<calls, benchVars, restVars>>

\* if (webhookUrl) await sendWebhook(webhookUrl, requestId, {}, false)
SendWebhookFailed ==
  /\ pc = "caught"
  /\ webhookUrl
  /\ webhookCalls' = Append(webhookCalls, [data |-> None, isSuccess |-> FALSE])
  /\ \E d \in Deliveries : webhookResult' = Some(sendWebhook(d))
  /\ pc' = "notified_failure"
  /\ UNCHANGED <<pages, isPaid, webhookUrl, extractors, text, fullData, error,
                 response>>
  /\ UNCHANGED <<calls, benchVars, restVars>>

\* The response of the catch block.
FailureResponse ==
  [success |-> FALSE, data |-> None, error |-> error, isDemo |-> ~isPaid]

ReturnFailure ==
  /\ pc = IF webhookUrl THEN "notified_failure" ELSE "caught"
  /\ response' = Some(FailureResponse)
  /\ pc' = "done"
  /\ UNCHANGED <<pages, isPaid, webhookUrl, extractors, text, fullData, error,
                 webhookCalls, webhookResult>>
  /\ UNCHANGED <<calls, benchVars, restVars>>

Next ==
  \/ Call
  \/ Pdf2jsonDataReady
  \/ Pdf2jsonHandlerThrows
  \/ Pdf2jsonDataError
  \/ PdfParseOk
  \/ PdfParseFail
  \/ ParseText
  \/ SendWebhookCompleted
  \/ ReturnSuccess
  \/ SendWebhookFailed
  \/ ReturnFailure

Spec == Init /\ [][Next]_vars

(***************************************************************************)
(* The demo endpoint: PUT /api/parse calls parseAndProcessPDF(buffer,       *)
(* false) with no webhook URL.                                             *)
(***************************************************************************)
DemoCall ==
  /\ pc = "idle"
  /\ \E items \in DemoItemSeqs : pages' = <<items>>
  /\ isPaid' = FALSE
  /\ webhookUrl' = FALSE
  /\ pc' = "pdf2json"
  /\ UNCHANGED <<extractors, text, fullData, error, webhookCalls, webhookResult,
                 response>>
  /\ UNCHANGED <<calls, benchVars, restVars>>

DemoNext ==
  \/ DemoCall
  \/ Pdf2jsonDataReady
  \/ Pdf2jsonDataError
  \/ PdfParseOk
  \/ PdfParseFail
  \/ ParseText
  \/ ReturnSuccess
  \/ ReturnFailure

DemoSpec == Init /\ [][DemoNext]_vars

(***************************************************************************)
(* Calls in flight together.  Node runs one continuation at a time; a call  *)
(* gives way at each await.  calls[c] holds the locals of call c: the       *)
(* parameters and the const/let bindings of parseAndProcessPDF and of       *)
(* parseRegistryPDF, which every call creates anew.                         *)
(***************************************************************************)
\* The most calls in flight together.
MaxCalls == 2

CallIds == 1..MaxCalls

\* The text items the uploads are made of: call c uploads the first c + 1.
ConcItems ==
  <<ItemHeadA, ItemOwnerRow, ItemClaimRow, ItemHeadB, ItemMortgageRow>>

ConcPagesOf(c) == << SubSeq(ConcItems, 1, Min(c + 1, Len(ConcItems))) >>

IdleCall ==
  [pc |-> "idle", pages |-> <<>>, isPaid |-> FALSE, webhookUrl |-> FALSE,
   extractors |-> {}, text |-> None, fullData |-> None, error |-> None,
   webhookCalls |-> <<>>, response |-> None]

ConcInit ==
  /\ pc = "idle"
  /\ pages = <<>>
  /\ isPaid = FALSE
  /\ webhookUrl = FALSE
  /\ extractors = {}
  /\ text = None
  /\ fullData = None
  /\ error = None
  /\ webhookCalls = <<>>
  /\ webhookResult = None
  /\ response = None
  /\ calls = [c \in CallIds |-> IdleCall]
  /\ gtTokens = <<>>
  /\ parserTokens = <<>>
  /\ history = <<>>
  /\ RestIdle

\* parseAndProcessPDF(pdfBuffer, isPaid, webhookUrl) up to pdfParser.parseBuffer
CCall(c) ==
  /\ calls[c].pc = "idle"
  /\ \E paid \in BOOLEAN, url \in BOOLEAN :
       calls' = [calls EXCEPT ![c] =
                   [@ EXCEPT !.pc = "pdf2json", !.pages = ConcPagesOf(c),
                             !.isPaid = paid, !.webhookUrl = url]]
  /\ UNCHANGED <<callVars, benchVars, restVars>>

\* pdfParser_dataReady of the reader of call c
CPdf2jsonDataReady(c) ==
  /\ calls[c].pc = "pdf2json"
  /\ ~HandlerThrows(calls[c].pages)
  /\ calls' = [calls EXCEPT ![c] =
                 [@ EXCEPT !.pc = "extracted",
                           !.text = Some(Pdf2jsonText(calls[c].pages))]]
  /\ UNCHANGED <<callVars, benchVars, restVars>>

\* pdfParser_dataError of the reader of call c
CPdf2jsonDataError(c) ==
  /\ calls[c].pc = "pdf2json"
  /\ calls' = [calls EXCEPT ![c] =
                 [@ EXCEPT !.pc = "pdfparse",
                           !.extractors = @ \cup {"pdf2json"}]]
  /\ UNCHANGED <<callVars, benchVars, restVars>>

CPdfParseOk(c) ==
  /\ calls[c].pc = "pdfparse"
  /\ calls' = [calls EXCEPT ![c] =
                 [@ EXCEPT !.pc = "extracted",
                           !.text = Some(PdfParseText(calls[c].pages))]]
  /\ UNCHANGED <<callVars, benchVars, restVars>>

CPdfParseFail(c) ==
  /\ calls[c].pc = "pdfparse"
  /\ calls' = [calls EXCEPT ![c] =
                 [@ EXCEPT !.pc = "caught",
                           !.extractors = @ \cup {"pdf-parse"},
                           !.error = Some(ExtractionError)]]
  /\ UNCHANGED <<callVars, benchVars, restVars>>

\* One binding for all calls (a module-level `let fullData`): the write of
\* call c is what every call reads from then on.
StoreDocumentShared(c, document) ==
  [k \in DOMAIN calls |->
     IF k = c THEN [calls[k] EXCEPT !.pc = "parsed", !.fullData = Some(document)]
     ELSE [calls[k] EXCEPT !.fullData = Some(document)]]

\* const fullData = await parseRegistryPDF(pdfBuffer): a binding of call c.
StoreDocument(c, document) ==
  [calls EXCEPT ![c] = [@ EXCEPT !.pc = "parsed", !.fullData = Some(document)]]

\* The rest of parseRegistryPDF runs without an await.
CParseText(c) ==
  /\ calls[c].pc = "extracted"
  /\ \E now \in Times :
       calls' = StoreDocument(c, RegistryDataOf(calls[c].text[1], now))
  /\ UNCHANGED <<callVars, benchVars, restVars>>

\* isPaid ? fullData : maskForDemo(fullData), as call c evaluates it
CDataFor(c) ==
  IF calls[c].isPaid THEN calls[c].fullData[1]
  ELSE maskForDemo(calls[c].fullData[1])

\* await sendWebhook(...): the caller drops what the delivery returns.
CSendWebhookCompleted(c) ==
  /\ calls[c].pc = "parsed"
  /\ calls[c].webhookUrl
  /\ calls' = [calls EXCEPT ![c] =
                 [@ EXCEPT !.pc = "notified",
                           !.webhookCalls =
                              Append(@, [data |-> CDataFor(c), isSuccess |-> TRUE])]]
  /\ UNCHANGED <<callVars, benchVars, restVars>>

CReturnSuccess(c) ==
  /\ calls[c].pc = IF calls[c].webhookUrl THEN "notified" ELSE "parsed"
  /\ calls' = [calls EXCEPT ![c] =
                 [@ EXCEPT !.pc = "done",
                           !.response =
                              Some([success |-> TRUE, data |-> Some(CDataFor(c)),
                                    error |-> None, isDemo |-> ~calls[c].isPaid])]]
  /\ UNCHANGED <<callVars, benchVars, restVars>>

CSendWebhookFailed(c) ==
  /\ calls[c].pc = "caught"
  /\ calls[c].webhookUrl
  /\ calls' = [calls EXCEPT ![c] =
                 [@ EXCEPT !.pc = "notified_failure",
                           !.webhookCalls =
                              Append(@, [data |-> None, isSuccess |-> FALSE])]]
  /\ UNCHANGED <<callVars, benchVars, restVars>>

CReturnFailure(c) ==
  /\ calls[c].pc = IF calls[c].webhookUrl THEN "notified_failure" ELSE "caught"
  /\ calls' = [calls EXCEPT ![c] =
                 [@ EXCEPT !.pc = "done",
                           !.response =
                              Some([success |-> FALSE, data |-> None,
                                    error |-> calls[c].error,
                                    isDemo |-> ~calls[c].isPaid])]]
  /\ UNCHANGED <<callVars, benchVars, restVars>>

ConcNext ==
  \E c \in CallIds :
    \/ CCall(c)
    \/ CPdf2jsonDataReady(c)
    \/ CPdf2jsonDataError(c)
    \/ CPdfParseOk(c)
    \/ CPdfParseFail(c)
    \/ CParseText(c)
    \/ CSendWebhookCompleted(c)
    \/ CReturnSuccess(c)
    \/ CSendWebhookFailed(c)
    \/ CReturnFailure(c)

ConcSpec == ConcInit /\ [][ConcNext]_vars

(***************************************************************************)
(* The benchmark of docs/benchmark-design.md: token recall of a parser     *)
(* against the ground truth, and the history of saved runs.  A Counter is   *)
(* a function from tokens to counts; a token it does not hold counts 0.     *)
(***************************************************************************)
\* The most occurrences of one token in a text.
MaxCount == 2

\* The most runs saved to the history.
MaxRuns == 3

BenchTokens == {"soyugwonijeon", "honggildong"}

Versions == {"1.0.0", "1.1.0"}

Counters == [BenchTokens -> 0..MaxCount]

Count(counter, token) == IF token \in DOMAIN counter THEN counter[token] ELSE 0

RECURSIVE SumOver(_, _, _)
SumOver(tokens, gt, parser) ==
  IF tokens = {} THEN 0
  ELSE LET t == CHOOSE x \in tokens : TRUE
       IN Min(Count(gt, t), Count(parser, t)) + SumOver(tokens \ {t}, gt, parser)

\* Sigma GT[token]
Total(gt) == SumOver(DOMAIN gt, gt, gt)

\* Tokens compared as sets: a token both sides hold counts once.
MatchedAsSet(gt, parser) ==
  Cardinality({t \in DOMAIN gt : Count(gt, t) > 0 /\ Count(parser, t) > 0})

\* Occurrences counted only where the parser has no surplus of the token.
MatchedNoSurplus(gt, parser) ==
  SumOver({t \in DOMAIN gt : Count(parser, t) <= Count(gt, t)}, gt, parser)

\* Sigma min(GT[token], Parser[token]) for all tokens in GT
Matched(gt, parser) == SumOver(DOMAIN gt, gt, parser)

\* N/A: the section is absent from the PDF.
NotApplicable == None

\* Score = Sigma min(GT[token], Parser[token]) / Sigma GT[token] x 100, kept
\* as the exact fraction num / den; N/A when the ground truth holds no token.
Score(gt, parser) ==
  IF Total(gt) = 0 THEN NotApplicable
  ELSE Some([num |-> 100 * Matched(gt, parser), den |-> Total(gt)])

ScoreIs(score, points) ==
  score # NotApplicable /\ score[1].num = points * score[1].den

ScoreLeq(a, b) == a[1].num * b[1].den <= b[1].num * a[1].den

VersionsOf(h) == {h[i].version : i \in 1..Len(h)}

RecordsOf(h) == {h[i] : i \in 1..Len(h)}

\* A history every run is added to.
SaveRunAppends(h, record) == Append(h, record)

\* benchmark.py --save: the record of the same version is replaced, a record
\* of a new version is added.
SaveRun(h, record) ==
  Append(SelectSeq(h, LAMBDA r : r.version # record.version), record)

\* The ordinal of the next saved run, standing for its date.
NextDate(h) ==
  IF h = <<>> THEN 1
  ELSE 1 + (CHOOSE d \in {h[i].date : i \in 1..Len(h)} :
              \A i \in 1..Len(h) : h[i].date <= d)

BenchInit ==
  /\ pc = "idle"
  /\ pages = <<>>
  /\ isPaid = FALSE
  /\ webhookUrl = FALSE
  /\ extractors = {}
  /\ text = None
  /\ fullData = None
  /\ error = None
  /\ webhookCalls = <<>>
  /\ webhookResult = None
  /\ response = None
  /\ calls = <<>>
  /\ gtTokens \in Counters
  /\ parserTokens = [t \in BenchTokens |-> 0]
  /\ history = <<>>
  /\ RestIdle

\* A parser build that structures one more occurrence of a token.
ParserGains(t) ==
  /\ parserTokens[t] < MaxCount
  /\ parserTokens' = [parserTokens EXCEPT ![t] = @ + 1]
  /\ UNCHANGED <<gtTokens, history, callVars, calls, restVars>>

\* A parser build that structures one occurrence of a token less.
ParserLoses(t) ==
  /\ parserTokens[t] > 0
  /\ parserTokens' = [parserTokens EXCEPT ![t] = @ - 1]
  /\ UNCHANGED <<gtTokens, history, callVars, calls, restVars>>

\* uv run python benchmark.py --parser v --save
SaveBenchmark(v) ==
  /\ NextDate(history) <= MaxRuns
  /\ history' = SaveRun(history, [version |-> v, date |-> NextDate(history),
                                  overall |-> Score(gtTokens, parserTokens)])
  /\ UNCHANGED <<gtTokens, parserTokens, callVars, calls, restVars>>

BenchNext ==
  \/ \E t \in BenchTokens : ParserGains(t)
  \/ \E t \in BenchTokens : ParserLoses(t)
  \/ \E v \in Versions : SaveBenchmark(v)

BenchSpec == BenchInit /\ [][BenchNext]_vars

(***************************************************************************)
(* parseAmount on its own, for every text of a few symbols.                 *)
(***************************************************************************)
\* No call, no calls in flight together, no benchmark.
ProcessIdle ==
  /\ pc = "idle"
  /\ pages = <<>>
  /\ isPaid = FALSE
  /\ webhookUrl = FALSE
  /\ extractors = {}
  /\ text = None
  /\ fullData = None
  /\ error = None
  /\ webhookCalls = <<>>
  /\ webhookResult = None
  /\ response = None
  /\ calls = <<>>
  /\ gtTokens = <<>>
  /\ parserTokens = <<>>
  /\ history = <<>>

\* The longest argument of parseAmount.
MaxAmountLen == 4

AmountSymbols == {"geum", "won", ",", "1", "0", " "}

AmountTexts == UNION {[1..k -> AmountSymbols] : k \in 0..MaxAmountLen}

AmountInit ==
  /\ ProcessIdle
  /\ amountText \in AmountTexts
  /\ amount = None
  /\ RouteIdle
  /\ ClientIdle
  /\ SuccessIdle
  /\ PricingIdle
  /\ MaskIdle

\* parseAmount(text)
ParseAmountCall ==
  /\ amount = None
  /\ amount' = Some(parseAmount(amountText))
  /\ UNCHANGED <<amountText, notAmountVars>>

AmountNext == ParseAmountCall

AmountSpec == AmountInit /\ [][AmountNext]_vars

(***************************************************************************)
(* The route /api/parse: POST (paid parsing) and PUT (demo parsing).  A     *)
(* request is its method, whether its body reads as form data, and the     *)
(* form fields file, isPaid and webhookUrl.  formData.get gives null for a  *)
(* field the form lacks, a string for a text field and a File for a file.   *)
(***************************************************************************)
\* 10 * 1024 * 1024
MaxUploadBytes == 10485760

\* String.prototype.toLowerCase, one character
LowerChar(c) ==
  CASE c = "P" -> "p" [] c = "D" -> "d" [] c = "F" -> "f" [] OTHER -> c

toLowerCase(name) == [k \in 1..Len(name) |-> LowerChar(name[k])]

\* String.prototype.endsWith
endsWith(name, suffix) ==
  /\ Len(name) >= Len(suffix)
  /\ SubSeq(name, Len(name) - Len(suffix) + 1, Len(name)) = suffix

DotPdf == <<".", "p", "d", "f">>

FileNames ==
  { <<"a", ".", "p", "d", "f">>, <<"a", ".", "P", "d", "F">>,
    <<"a", ".", "t", "x", "t">>, <<"p", "d", "f">> }

FileSizes == {1, MaxUploadBytes, MaxUploadBytes + 1}

\* What the uploaded files hold.
FileContents ==
  { << <<ItemHeadA, ItemOwnerRow>> >>, << <<ItemHeadB, ItemMortgageRow>> >> }

\* The values of the form field file: a File, or a text value.
FileFields ==
  [kind : {"file"}, name : FileNames, size : FileSizes, content : FileContents]
    \cup [kind : {"string"}, name : {<<>>}, size : {0}, content : {<<>>}]

Requests ==
  [method : {"POST", "PUT"},
   isForm : BOOLEAN,
   file : {None} \cup {Some(f) : f \in FileFields},
   isPaid : {None, Some("true"), Some("false")},
   webhookUrl : {None, Some("url")}]

\* A request whose body does not read as form data carries no field.
WellFormedRequest(req) ==
  req.isForm \/ (req.file = None /\ req.isPaid = None /\ req.webhookUrl = None)

RouteInit ==
  /\ ProcessIdle
  /\ AmountIdle
  /\ ClientIdle
  /\ SuccessIdle
  /\ PricingIdle
  /\ MaskIdle
  /\ request \in {Some(req) : req \in {r \in Requests : WellFormedRequest(r)}}
  /\ routePc = "received"
  /\ httpResponse = None

IsFile(field) == field # None /\ field[1].kind = "file"

\* The checks of POST in their order: the error of the first that fails, or
\* None when the request passes.
PostCheck(req) ==
  IF req.file = None THEN Some("file required")
  ELSE IF ~endsWith(toLowerCase(req.file[1].name), DotPdf)
       THEN Some("only PDF files")
  ELSE IF req.file[1].size > MaxUploadBytes THEN Some("file too large")
  ELSE None

\* The one check of PUT.
PutCheck(req) == IF req.file = None THEN Some("file required") ELSE None

RouteCheck(req) == IF req.method = "POST" THEN PostCheck(req) ELSE PutCheck(req)

\* What throws inside the try block before parsing starts: request.formData()
\* on a body that is no form data, file.name.toLowerCase() in POST and
\* file.arrayBuffer() in PUT on a text value, which has neither.
RouteThrows(req) == ~req.isForm \/ (req.file # None /\ ~IsFile(req.file))

ServerError == "TypeError"

\* return NextResponse.json({ success: false, error }, { status: 400 })
RouteRejects ==
  /\ routePc = "received"
  /\ ~RouteThrows(request[1])
  /\ RouteCheck(request[1]) # None
  /\ httpResponse' = Some([status |-> 400, success |-> FALSE,
                           error |-> RouteCheck(request[1]), data |-> None,
                           isDemo |-> None])
  /\ routePc' = "responded"
  /\ UNCHANGED <<request, callVars, notRouteVars>>

\* The catch block: status 500.
RouteCatches ==
  /\ routePc = "received"
  /\ RouteThrows(request[1])
  /\ httpResponse' = Some([status |-> 500, success |-> FALSE,
                           error |-> Some(ServerError), data |-> None,
                           isDemo |-> Some(TRUE)])
  /\ routePc' = "responded"
  /\ UNCHANGED <<request, callVars, notRouteVars>>

\* A PUT handler that reads isPaid from the form as POST does.
PutIsPaidFromForm(req) == req.isPaid = Some("true")

\* parseAndProcessPDF(buffer, false)
PutIsPaid(req) == FALSE

\* formData.get('isPaid') === 'true' in POST
RouteIsPaid(req) ==
  IF req.method = "POST" THEN req.isPaid = Some("true") ELSE PutIsPaid(req)

\* webhookUrl || undefined in POST; PUT passes no third argument.
RouteWebhookUrl(req) == req.method = "POST" /\ req.webhookUrl # None

\* await parseAndProcessPDF(buffer, isPaid, webhookUrl) up to the first await
RouteStartsParse ==
  /\ routePc = "received"
  /\ pc = "idle"
  /\ ~RouteThrows(request[1])
  /\ RouteCheck(request[1]) = None
  /\ pages' = request[1].file[1].content
  /\ isPaid' = RouteIsPaid(request[1])
  /\ webhookUrl' = RouteWebhookUrl(request[1])
  /\ pc' = "pdf2json"
  /\ routePc' = "parsing"
  /\ UNCHANGED <<extractors, text, fullData, error, webhookCalls, webhookResult,
                 response>>
  /\ UNCHANGED <<request, httpResponse, notRouteVars>>

\* return NextResponse.json(result)
RouteResponds ==
  /\ routePc = "parsing"
  /\ pc = "done"
  /\ httpResponse' = Some([status |-> 200, success |-> response[1].success,
                           error |-> response[1].error, data |-> response[1].data,
                           isDemo |-> Some(response[1].isDemo)])
  /\ routePc' = "responded"
  /\ UNCHANGED <<request, callVars, notRouteVars>>

RouteNext ==
  \/ RouteRejects
  \/ RouteCatches
  \/ RouteStartsParse
  \/ Pdf2jsonDataReady
  \/ Pdf2jsonDataError
  \/ PdfParseOk
  \/ PdfParseFail
  \/ ParseText
  \/ SendWebhookCompleted
  \/ ReturnSuccess
  \/ SendWebhookFailed
  \/ ReturnFailure
  \/ RouteResponds

RouteSpec == RouteInit /\ [][RouteNext]_vars

(***************************************************************************)
(* ApiClient of src/lib/api.ts.  Its callers are event handlers and effects *)
(* of client components, so window is defined.  A call sends its request    *)
(* and ends when the response arrives; other calls may start in between.    *)
(***************************************************************************)
\* The most requests sent in one behaviour.
MaxRequests == 4

\* typeof window !== 'undefined'
HasWindow == TRUE

RequestKinds == {"login", "other"}

\* The token pairs a login response may carry.
TokenPairs ==
  { [access_token |-> Some("a1"), refresh_token |-> Some("r1")],
    [access_token |-> Some("a2"), refresh_token |-> Some("r2")] }

\* The calls that have ended, and the calls begun.
EndedCalls == IF lastCall = None THEN 0 ELSE lastCall[1].seq

BegunCalls == EndedCalls + inflight.login + inflight.other

\* login(), or any other call through fetch, up to `await fetch(...)`
StartRequest(kind) ==
  /\ BegunCalls < MaxRequests
  /\ inflight' = [inflight EXCEPT ![kind] = @ + 1]
  /\ UNCHANGED <<storage, loggedIn, lastCall, location, notClientVars>>

Ended(kind, code, result) ==
  Some([seq |-> EndedCalls + 1, kind |-> kind, status |-> code,
        result |-> result])

\* A removeToken that forgets the refresh token.
removeTokenAccessOnly(s) == [s EXCEPT !.access_token = None]

\* removeToken()
removeToken(s) ==
  IF HasWindow THEN [access_token |-> None, refresh_token |-> None] ELSE s

\* response.status === 401: removeToken, redirect, throw
Respond401(kind) ==
  /\ inflight[kind] > 0
  /\ inflight' = [inflight EXCEPT ![kind] = @ - 1]
  /\ storage' = removeToken(storage)
  /\ location' = IF HasWindow THEN "/login" ELSE location
  /\ loggedIn' = FALSE
  /\ lastCall' = Ended(kind, 401, "rejected")
  /\ UNCHANGED notClientVars

\* !response.ok with another status, or fetch itself rejects: the call throws
RespondError(kind) ==
  /\ inflight[kind] > 0
  /\ inflight' = [inflight EXCEPT ![kind] = @ - 1]
  /\ lastCall' = Ended(kind, 500, "rejected")
  /\ UNCHANGED <<storage, loggedIn, location, notClientVars>>

\* return response.json() for a call that is no login
RespondOk ==
  /\ inflight.other > 0
  /\ inflight' = [inflight EXCEPT !.other = @ - 1]
  /\ lastCall' = Ended("other", 200, "resolved")
  /\ UNCHANGED <<storage, loggedIn, location, notClientVars>>

\* login: the response is stored, access_token then refresh_token
LoginOk ==
  /\ inflight.login > 0
  /\ inflight' = [inflight EXCEPT !.login = @ - 1]
  /\ \E pair \in TokenPairs : storage' = IF HasWindow THEN pair ELSE storage
  /\ loggedIn' = TRUE
  /\ lastCall' = Ended("login", 200, "resolved")
  /\ UNCHANGED <<location, notClientVars>>

\* logout()
Logout ==
  /\ storage' = removeToken(storage)
  /\ location' = IF HasWindow THEN "/login" ELSE location
  /\ loggedIn' = FALSE
  /\ UNCHANGED <<inflight, lastCall, notClientVars>>

ClientInit == ProcessIdle /\ RestIdle

ClientNext ==
  \/ \E kind \in RequestKinds : StartRequest(kind)
  \/ \E kind \in RequestKinds : Respond401(kind)
  \/ \E kind \in RequestKinds : RespondError(kind)
  \/ RespondOk
  \/ LoginOk
  \/ Logout

ClientSpec == ClientInit /\ [][ClientNext]_vars

(***************************************************************************)
(* The payment success page: PaymentSuccessContent.                        *)
(***************************************************************************)
\* What searchParams.get returns: null, or the string of the parameter.
PaymentKeys == {None, Some(""), Some("pk1"), Some("pk2")}

OrderIds == {None, Some(""), Some("order1")}

AmountParams == {None, Some(""), Some("0"), Some("1000"), Some("abc")}

SearchParamSets ==
  [paymentKey : PaymentKeys, orderId : OrderIds, amount : AmountParams]

\* !value of a string or null: null and '' are falsy.
Falsy(opt) == opt = None \/ opt[1] = ""

\* Number(value): null and '' give 0, a decimal numeral its value, other
\* text NaN.
Number(opt) ==
  CASE opt = None -> 0
    [] opt[1] = "" -> 0
    [] opt[1] = "0" -> 0
    [] opt[1] = "1000" -> 1000
    [] OTHER -> NaN

\* The message of setErrorMessage for a missing parameter:
\* '결제 정보가 올바르지 않습니다.'
InvalidPaymentInfo == "payment information is not valid"

\* The message for a rejection that is not an Error: '결제 승인에 실패했습니다.'
ConfirmFailed == "payment confirmation failed"

\* What a rejected call was rejected with: an Error with its message, or
\* another value.
Rejections == {Some("expired"), None}

RejectionMessage(rejection) ==
  IF rejection # None THEN rejection[1] ELSE ConfirmFailed

SuccessInit ==
  /\ ProcessIdle
  /\ AmountIdle
  /\ RouteIdle
  /\ ClientIdle
  /\ PricingIdle
  /\ MaskIdle
  /\ searchParams \in SearchParamSets
  /\ successPc = "mounted"
  /\ status = "loading"
  /\ errorMessage = ""
  /\ confirmCalls = <<>>
  /\ settled = {}

ParamsMissingButAmount(params) ==
  Falsy(params.paymentKey) \/ Falsy(params.orderId)

\* !paymentKey || !orderId || !amount
ParamsMissing(params) ==
  Falsy(params.paymentKey) \/ Falsy(params.orderId) \/ Falsy(params.amount)

\* The effect of the mount runs confirmPayment up to its first await.
ConfirmPaymentStart ==
  /\ successPc = "mounted"
  /\ IF ParamsMissing(searchParams)
       THEN /\ status' = "error"
            /\ errorMessage' = InvalidPaymentInfo
            /\ successPc' = "done"
            /\ UNCHANGED confirmCalls
       ELSE /\ confirmCalls' =
                 Append(confirmCalls,
                        [payment_key |-> searchParams.paymentKey[1],
                         order_id |-> searchParams.orderId[1],
                         amount |-> Number(searchParams.amount)])
            /\ successPc' = "confirming"
            /\ UNCHANGED <<status, errorMessage>>
  /\ UNCHANGED <<searchParams, settled, notSuccessVars>>

\* api.confirmPayment resolved: refreshUser is called.
ConfirmResolved ==
  /\ successPc = "confirming"
  /\ settled' = settled \cup {"confirmPayment"}
  /\ successPc' = "refreshing"
  /\ UNCHANGED <<searchParams, status, errorMessage, confirmCalls,
                 notSuccessVars>>

\* refreshUser resolved.
RefreshResolved ==
  /\ successPc = "refreshing"
  /\ settled' = settled \cup {"refreshUser"}
  /\ status' = "success"
  /\ successPc' = "done"
  /\ UNCHANGED <<searchParams, errorMessage, confirmCalls, notSuccessVars>>

\* One of the awaited calls rejected: the catch block.
AwaitRejected ==
  /\ successPc \in {"confirming", "refreshing"}
  /\ \E rejection \in Rejections :
       errorMessage' = RejectionMessage(rejection)
  /\ status' = "error"
  /\ successPc' = "done"
  /\ UNCHANGED <<searchParams, confirmCalls, settled, notSuccessVars>>

SuccessNext ==
  \/ ConfirmPaymentStart
  \/ ConfirmResolved
  \/ RefreshResolved
  \/ AwaitRejected

SuccessSpec == SuccessInit /\ [][SuccessNext]_vars

(***************************************************************************)
(* The pricing page: PricingPage.                                          *)
(***************************************************************************)
MaxAttempts == 3

\* The types of the plans the page shows a button for.
PlanTypes == {"free", "basic", "pro"}

\* useAuth(): no user, or a user with a plan.
Users == {None} \cup {Some([plan |-> plan]) : plan \in PlanTypes}

\* What api.getTossClientKey can resolve to.
ClientKeys == {"", "test_ck"}

\* The codes of the errors of a closed payment window.
CancelCodes == {"USER_CANCEL", "PAY_PROCESS_CANCELED"}

\* What an awaited call of handleSelectPlan can reject with.
PaymentErrors == CancelCodes \cup {"NETWORK"}

isAuthenticated == user # None

\* user?.plan === planType
IsCurrentPlan(planType) == user # None /\ user[1].plan = planType

PricingInit ==
  /\ ProcessIdle
  /\ AmountIdle
  /\ RouteIdle
  /\ ClientIdle
  /\ SuccessIdle
  /\ MaskIdle
  /\ user \in Users
  /\ tossReady = FALSE
  /\ clientKeyRef = None
  /\ processingPlan = None
  /\ attempts = {}
  /\ createCalls = <<>>
  /\ router = "/pricing"
  /\ alerts = <<>>
  /\ logged = <<>>

\* <Script onLoad={() => setTossReady(true)} />
ScriptLoaded ==
  /\ router = "/pricing"
  /\ ~tossReady
  /\ tossReady' = TRUE
  /\ UNCHANGED <<user, clientKeyRef, processingPlan, attempts, createCalls,
                 router, alerts, logged, notPricingVars>>

\* loadTossClientKey, once api.getTossClientKey resolved.
LoadTossClientKey ==
  /\ router = "/pricing"
  /\ clientKeyRef = None
  /\ \E key \in ClientKeys : clientKeyRef' = Some(key)
  /\ UNCHANGED <<user, tossReady, processingPlan, attempts, createCalls,
                 router, alerts, logged, notPricingVars>>

\* A button that only the current plan disables.
DisabledForCurrentPlan(planType) == isAuthenticated /\ IsCurrentPlan(planType)

\* disabled={processingPlan !== null || (isAuthenticated && user?.plan === plan.type)}
Disabled(planType) ==
  processingPlan # None \/ (isAuthenticated /\ IsCurrentPlan(planType))

\* '결제 시스템을 불러오는 중입니다. 잠시 후 다시 시도해주세요.'
PaymentLoading == "the payment system is loading"

\* !tossReady || !clientKeyRef.current
NotReady == ~tossReady \/ Falsy(clientKeyRef)

\* A click on the button of a plan: handleSelectPlan up to its first await.
\* The state set in the handler of a click is rendered before the next click
\* is handled.
HandleSelectPlan(planType) ==
  /\ router = "/pricing"
  /\ ~Disabled(planType)
  /\ Len(createCalls) + Len(alerts) < MaxAttempts
  /\ IF ~isAuthenticated
       THEN /\ router' = "/signup"
            /\ UNCHANGED <<processingPlan, attempts, createCalls, alerts>>
       ELSE IF planType = "free"
         THEN /\ router' = "/dashboard"
              /\ UNCHANGED <<processingPlan, attempts, createCalls, alerts>>
         ELSE IF IsCurrentPlan(planType)
           THEN UNCHANGED <<processingPlan, attempts, createCalls, router,
                            alerts>>
         ELSE IF NotReady
           THEN /\ alerts' = Append(alerts, PaymentLoading)
                /\ UNCHANGED <<processingPlan, attempts, createCalls, router>>
           ELSE /\ processingPlan' = Some(planType)
                /\ createCalls' =
                     Append(createCalls,
                            [plan_type |-> planType, user |-> user,
                             tossReady |-> tossReady,
                             clientKey |-> clientKeyRef])
                /\ attempts' =
                     attempts \cup {[id |-> Len(createCalls) + 1,
                                     planType |-> planType,
                                     at |-> "createPayment"]}
                /\ UNCHANGED <<router, alerts>>
  /\ UNCHANGED <<user, tossReady, clientKeyRef, logged, notPricingVars>>

\* api.createPayment resolved: payment.requestPayment is called.
CreatePaymentResolved(attempt) ==
  /\ attempt \in attempts
  /\ attempt.at = "createPayment"
  /\ attempts' =
       (attempts \ {attempt}) \cup {[attempt EXCEPT !.at = "requestPayment"]}
  /\ UNCHANGED <<user, tossReady, clientKeyRef, processingPlan, createCalls,
                 router, alerts, logged, notPricingVars>>

\* payment.requestPayment resolved: the finally block.
RequestPaymentResolved(attempt) ==
  /\ attempt \in attempts
  /\ attempt.at = "requestPayment"
  /\ attempts' = attempts \ {attempt}
  /\ processingPlan' = None
  /\ UNCHANGED <<user, tossReady, clientKeyRef, createCalls, router, alerts,
                 logged, notPricingVars>>

\* An awaited call rejected, the window was closed or window.TossPayments
\* threw: the catch block, then the finally block.
PaymentRejected(attempt, code) ==
  /\ attempt \in attempts
  /\ code \in PaymentErrors
  /\ attempts' = attempts \ {attempt}
  /\ processingPlan' = None
  /\ IF code \in CancelCodes
       THEN /\ logged' = Append(logged, "log")
            /\ UNCHANGED alerts
       ELSE /\ logged' = Append(logged, "error")
            /\ alerts' = Append(alerts, code)
  /\ UNCHANGED <<user, tossReady, clientKeyRef, createCalls, router,
                 notPricingVars>>

PricingNext ==
  \/ ScriptLoaded
  \/ LoadTossClientKey
  \/ \E planType \in PlanTypes : HandleSelectPlan(planType)
  \/ \E attempt \in attempts : CreatePaymentResolved(attempt)
  \/ \E attempt \in attempts : RequestPaymentResolved(attempt)
  \/ \E attempt \in attempts, code \in PaymentErrors :
       PaymentRejected(attempt, code)

PricingSpec == PricingInit /\ [][PricingNext]_vars

(***************************************************************************)
(* maskForDemo applied to a document, then to its own result.  A document  *)
(* is a RegistryData: what the parser gives for a text, with or without an *)
(* owners list in its 갑구 entries.                                         *)
(***************************************************************************)
MaxMaskings == 2

\* The pages of the documents masked.
MaskPages ==
  {<<>>,
   <<ItemHeadA, ItemOwnerRow>>,
   <<ItemHeadA, ItemOwnerRow, ItemHeadB, ItemMortgageRow>>}

OwnerNames ==
  {<<>>, <<"hong">>, <<"hong", "gil">>, <<"hong", "gil", "dong">>}

OwnerResidentNumbers ==
  {None, Some(<<"8", "0", "0", "1", "0", "1", "-", "1", "2", "3", "4", "5",
                "6", "7">>)}

\* No address; addresses of 1, 9, 10 and 12 characters.
OwnerAddresses ==
  {None,
   Some(<<"seo">>),
   Some(<<"seo", "ul", "si", "gang", "nam", "gu", "yeok", "sam", "dong">>),
   Some(<<"seo", "ul", "si", "gang", "nam", "gu", "yeok", "sam", "dong",
          "gil">>),
   Some(<<"seo", "ul", "teuk", "byeol", "si", "gang", "nam", "gu", "yeok",
          "sam", "dong", "gil">>)}

Owners ==
  [name : OwnerNames, residentNumber : OwnerResidentNumbers,
   address : OwnerAddresses]

\* owners?: Owner[]
OwnerLists == {None, Some(<<>>)} \cup {Some(<<o>>) : o \in Owners}

WithOwners(data, owners) ==
  [data EXCEPT !.sectionA =
     [k \in 1..Len(data.sectionA) |-> [data.sectionA[k] EXCEPT !.owners = owners]]]

Documents ==
  {WithOwners(RegistryDataOf(Pdf2jsonText(<<p>>), now), owners) :
     p \in MaskPages, now \in Times, owners \in OwnerLists}

MaskInit ==
  /\ ProcessIdle
  /\ AmountIdle
  /\ RouteIdle
  /\ ClientIdle
  /\ SuccessIdle
  /\ PricingIdle
  /\ original \in {Some(d) : d \in Documents}
  /\ maskings = <<>>

\* maskForDemo(original), then maskForDemo of the last result.
MaskForDemoCall ==
  /\ Len(maskings) < MaxMaskings
  /\ maskings' =
       Append(maskings,
              maskForDemo(IF maskings = <<>> THEN original[1]
                          ELSE maskings[Len(maskings)]))
  /\ UNCHANGED <<original, notMaskVars>>

MaskNext == MaskForDemoCall

MaskSpec == MaskInit /\ [][MaskNext]_vars

\* Every step of a call is a continuation the event loop runs once it is ready.
FairSpec == Spec /\ WF_vars(Next)

(***************************************************************************)
(* Properties.                                                             *)
(***************************************************************************)
\* C1: parseAndProcessPDF releases the unmasked document only to a paid
\* caller.  For every successful parse the data of the response and the data
\* handed to sendWebhook are maskForDemo(document) when isPaid is false and
\* the full document when isPaid is true; isDemo is !isPaid in the response
\* of a success and of a failure.
C1_UnmaskedOnlyWhenPaid ==
  /\ \A k \in 1..Len(webhookCalls) :
       webhookCalls[k].isSuccess =>
         webhookCalls[k].data =
           IF isPaid THEN fullData[1] ELSE maskForDemo(fullData[1])
  /\ response # None =>
       /\ response[1].isDemo = ~isPaid
       /\ response[1].success =>
            response[1].data =
              IF isPaid THEN fullData ELSE Some(maskForDemo(fullData[1]))

\* A demo call with a webhook has returned a document that masking changed.
C1_Witness ==
  /\ pc = "done"
  /\ ~isPaid
  /\ response[1].success
  /\ Len(webhookCalls) = 1
  /\ fullData[1].sectionA # <<>>
  /\ response[1].data # fullData
  /\ webhookCalls[1].data = response[1].data[1]

\* C2: for every document d, maskForDemo(d) has the uniqueNumber, the
\* propertyType and the propertyAddress of d.
C2_IdentityFieldsPreserved ==
  fullData # None =>
    LET d == fullData[1]
        m == maskForDemo(d)
    IN /\ m.uniqueNumber = d.uniqueNumber
       /\ m.propertyType = d.propertyType
       /\ m.propertyAddress = d.propertyAddress

\* A demo response whose document has a unique number, an address and the
\* type of an aggregate building, all three as parsed.
C2_Witness ==
  /\ pc = "done"
  /\ ~isPaid
  /\ response[1].success
  /\ fullData[1].uniqueNumber = <<"1", "2", "-", "3">>
  /\ fullData[1].propertyAddress = <<"seo", "ul">>
  /\ fullData[1].propertyType = "aggregate_building"
  /\ response[1].data[1].uniqueNumber = <<"1", "2", "-", "3">>
  /\ response[1].data[1].propertyAddress = <<"seo", "ul">>
  /\ response[1].data[1].propertyType = "aggregate_building"

\* C5: maskForDemo keeps the first entry of each section and no other.  For
\* input sections of length n the output sectionA and sectionB have
\* min(1, n) entries each, and a kept entry has the rankNumber and the
\* registrationType of the first entry of the input section.
C5_FirstEntryOnly ==
  fullData # None =>
    LET d == fullData[1]
        m == maskForDemo(d)
    IN /\ Len(m.sectionA) = Min(1, Len(d.sectionA))
       /\ Len(m.sectionB) = Min(1, Len(d.sectionB))
       /\ m.sectionA # <<>> =>
            /\ m.sectionA[1].rankNumber = d.sectionA[1].rankNumber
            /\ m.sectionA[1].registrationType = d.sectionA[1].registrationType
       /\ m.sectionB # <<>> =>
            /\ m.sectionB[1].rankNumber = d.sectionB[1].rankNumber
            /\ m.sectionB[1].registrationType = d.sectionB[1].registrationType

\* A demo response for a document with two 갑구 entries of different ranks
\* holds the first of them only.
C5_Witness ==
  /\ pc = "done"
  /\ ~isPaid
  /\ response[1].success
  /\ Len(fullData[1].sectionA) = 2
  /\ fullData[1].sectionA[1].rankNumber # fullData[1].sectionA[2].rankNumber
  /\ Len(response[1].data[1].sectionA) = 1
  /\ response[1].data[1].sectionA[1].rankNumber = fullData[1].sectionA[1].rankNumber

\* C6: only an extraction failure aborts a parse.  pdf-parse is tried only
\* after pdf2json failed and parseRegistryPDF throws only when both failed;
\* every extracted text, whatever it lacks, gives a document; and
\* parseAndProcessPDF turns the thrown error into a response with success
\* false, the error message and no data.
C6_OnlyExtractionFailureAborts ==
  /\ (pc = "pdfparse" \/ "pdf-parse" \in extractors) => "pdf2json" \in extractors
  /\ error # None =>
       /\ extractors = {"pdf2json", "pdf-parse"}
       /\ text = None
       /\ fullData = None
  /\ text # None =>
       /\ error = None
       /\ pc \in {"parsed", "notified", "done"} => fullData # None
       /\ response # None => response[1].success /\ response[1].data # None
  /\ (response # None /\ error # None) =>
       /\ ~response[1].success
       /\ response[1].error = Some(ExtractionError)
       /\ response[1].data = None

\* A call in which both extractors failed has returned the failure response.
C6_Witness ==
  /\ pc = "done"
  /\ extractors = {"pdf2json", "pdf-parse"}
  /\ ~response[1].success
  /\ response[1].error = Some(ExtractionError)
  /\ response[1].data = None

\* C3: maskForDemo truncates or removes every personal identifier of the
\* entries it keeps.  In the masked output of a document parseRegistryPDF
\* produced, every owner, creditor, debtor, mortgagee and lessee is absent
\* or has a name of the form first + '*' + last, no resident number but the
\* starred one, and no address beyond 10 characters and '...'.
C3_IdentifiersMasked ==
  (pc = "done" /\ response[1].success /\ ~isPaid) =>
    LET out == response[1].data[1]
        Masked(p) ==
          /\ p.name = MaskName(p.name)
          /\ p.residentNumber \in {None, Some(MaskedResident)}
          /\ \/ p.address = None
             \/ /\ Len(p.address[1]) \in 3..(AddressKeep + 3)
                /\ \A k \in (Len(p.address[1]) - 2)..Len(p.address[1]) :
                     p.address[1][k] = "."
        AbsentOrMasked(p) == p = None \/ Masked(p[1])
    IN /\ \A k \in 1..Len(out.sectionA) :
            /\ AbsentOrMasked(out.sectionA[k].owner)
            /\ AbsentOrMasked(out.sectionA[k].creditor)
            /\ \A i \in 1..Len(out.sectionA[k].owners[1]) :
                 Masked(out.sectionA[k].owners[1][i])
       /\ \A k \in 1..Len(out.sectionB) :
            /\ AbsentOrMasked(out.sectionB[k].debtor)
            /\ AbsentOrMasked(out.sectionB[k].mortgagee)
            /\ AbsentOrMasked(out.sectionB[k].lessee)

\* C4: maskForDemo removes monetary fields.  No sectionA or sectionB entry
\* of the masked output has a defined claimAmount, maxClaimAmount,
\* depositAmount or monthlyRent (jeonseDeposit is a field of no entry).
C4_NoMonetaryFields ==
  (pc = "done" /\ response[1].success /\ ~isPaid) =>
    LET out == response[1].data[1]
    IN /\ \A k \in 1..Len(out.sectionA) : out.sectionA[k].claimAmount = None
       /\ \A k \in 1..Len(out.sectionB) :
            /\ out.sectionB[k].maxClaimAmount = None
            /\ out.sectionB[k].depositAmount = None
            /\ out.sectionB[k].monthlyRent = None

\* C7: every parse call ends.  A call that has handed the buffer to the PDF
\* reader comes to return a response, whatever the reader does.
C7_EveryCallEnds == (pc = "pdf2json") ~> (pc = "done")

\* C8: every entry of sectionA and of sectionB has a non-empty
\* registrationType and a rankNumber that no other entry of its section has.
C8_RanksUnique ==
  fullData # None =>
    LET WellFormed(entries) ==
          /\ \A k \in 1..Len(entries) : entries[k].registrationType # <<>>
          /\ \A i, j \in 1..Len(entries) :
               entries[i].rankNumber = entries[j].rankNumber => i = j
    IN WellFormed(fullData[1].sectionA) /\ WellFormed(fullData[1].sectionB)

\* C9: whenever the cancellationInfo of an entry is set, the rank N of its
\* 'N번...말소' is the rankNumber of an entry earlier in the same section;
\* when there is no such entry the reference is unset.
C9_BackReferenceExists ==
  fullData # None =>
    LET entries == fullData[1].sectionA
        RankOf(info) == Sub(info, 1, RunEnd(info, 1, Digits))
    IN \A k \in 1..Len(entries) :
         entries[k].cancellationInfo # None =>
           \E j \in 1..(k - 1) :
             entries[j].rankNumber = RankOf(entries[k].cancellationInfo[1])

\* C10: no row is dropped because a pattern failed to match.  Every line of
\* the 갑구 and of the 을구 text that starts with a rank number and white
\* space has an entry with that rank number in the section's list, whatever
\* follows the rank number.
C10_NoRowDropped ==
  fullData # None =>
    LET t == text[1]
        Kept(sectionText, entries) ==
          \A e \in 1..Len(sectionText) :
            NextRowAt(sectionText, e) =>
              \E k \in 1..Len(entries) :
                entries[k].rankNumber =
                  Sub(sectionText, e + 1, RankEnd(sectionText, e + 1))
    IN /\ Kept(SectionText(t, SectionAMatch(t)), fullData[1].sectionA)
       /\ Kept(SectionText(t, SectionBMatch(t)), fullData[1].sectionB)

\* C11: when the text has no 갑구 heading or no 을구 heading, the parse does
\* not throw, the entry list of that section is empty, and a non-fatal
\* SectionNotFound is recorded in the errors list of the document.
C11_SectionNotFoundRecorded ==
  fullData # None =>
    LET t == text[1]
        d == fullData[1]
        Recorded ==
          /\ "errors" \in DOMAIN d
          /\ \E k \in 1..Len(d.errors) : d.errors[k] = "SectionNotFound"
    IN /\ SectionAMatch(t) = <<>> => (d.sectionA = <<>> /\ Recorded)
       /\ SectionBMatch(t) = <<>> => (d.sectionB = <<>> /\ Recorded)

\* C12: the property type of a parsed document is land, building or
\* aggregate_building: aggregate_building when the text holds the 집합건물
\* marker, building for a plain 건물 document, and land for a document with
\* a land heading and no building marker.
C12_PropertyTypeByMarker ==
  fullData # None =>
    LET t == text[1]
        type == fullData[1].propertyType
        aggregate == Includes(t, <<"jiphap", "geonmul">>)
        building == Includes(t, <<"geonmul">>)
        land == Includes(t, <<"[", "toji", "]">>)
    IN /\ type \in {"land", "building", "aggregate_building"}
       /\ aggregate => type = "aggregate_building"
       /\ (building /\ ~aggregate) => type = "building"
       /\ (land /\ ~building) => type = "land"

\* C13: the 갑구 row '1 소유권보존 소유자 홍길동 800101-******* 서울...' with
\* no cancellation marker yields one entry with rankNumber "1",
\* registrationType 소유권보존, an owners list holding one owner whose name
\* is exactly 홍길동 and whose address starts with 서울, and isCancelled
\* false.
C13_OwnershipPreservationRow ==
  (fullData # None /\ pages = << <<ItemHeadA, ItemOwnerRow>> >>) =>
    LET entries == fullData[1].sectionA
    IN /\ Len(entries) = 1
       /\ entries[1].rankNumber = <<"1">>
       /\ entries[1].registrationType = <<"soyu", "gwon", "bojon">>
       /\ entries[1].isCancelled = FALSE
       /\ entries[1].owners # None
       /\ Len(entries[1].owners[1]) = 1
       /\ entries[1].owners[1][1].name = <<"hong", "gil", "dong">>
       /\ entries[1].owners[1][1].address # None
       /\ SubSeq(entries[1].owners[1][1].address[1], 1, 2) = <<"seo", "ul">>

\* C18: the text regions taken as the 갑구 block and as the 을구 block never
\* overlap, whatever the order and the number of the section headings.
C18_BlocksDisjoint ==
  fullData # None =>
    LET a == SectionAMatch(text[1])
        b == SectionBMatch(text[1])
    IN (a # <<>> /\ b # <<>>) => (a[1].to <= b[1].from \/ b[1].to <= a[1].from)

\* C19: a row inside a skip section (the trade list, the summary 주요
\* 등기사항 요약) never produces a 갑구 or 을구 entry, also when the summary
\* follows the 갑구 section of a document without 을구 heading.  A position
\* is inside a skip section when a skip heading precedes it with no 갑구 or
\* 을구 heading in between.
C19_SkipSectionsNotExtracted ==
  fullData # None =>
    LET t == text[1]
        skips == HeadingStarts(t, {HeadingTrade, HeadingSummary})
        sections == HeadingStarts(t, {HeadingA, HeadingB})
        InSkip(p) ==
          \E h \in skips : h < p /\ ~\E g \in sections : h < g /\ g < p
        NoneInSkip(m, sec) ==
          m = <<>> \/
            LET rows == Rows(SectionText(t, m), 1, sec)
            IN \A k \in 1..Len(rows) : ~InSkip(m[1].from + rows[k].from - 1)
    IN /\ NoneInSkip(SectionAMatch(t), "A")
       /\ NoneInSkip(SectionBMatch(t), "B")

\* C20: a line with no rank number at its start is a continuation of the
\* preceding entry and never starts an entry of its own: the text of every
\* entry starts at the start of a line.
C20_ContinuationStartsNoEntry ==
  fullData # None =>
    LET t == text[1]
        AtLineStart(s, p) == p = 1 \/ s[p - 1] = "\n"
        AllAtLineStart(m, sec) ==
          m = <<>> \/
            LET s == SectionText(t, m)
                rows == Rows(s, 1, sec)
            IN \A k \in 1..Len(rows) : AtLineStart(s, rows[k].from)
    IN /\ AllAtLineStart(SectionAMatch(t), "A")
       /\ AllAtLineStart(SectionBMatch(t), "B")


\* C14: when calls run together, their awaits interleaved in any order, each
\* finished call holds the response and has sent the notification that its own
\* upload, flags and extraction outcome give when it runs alone.
C14_CallsIndependent ==
  \A c \in CallIds :
    calls[c].pc = "done" =>
      \E now \in Times :
        LET l == calls[c]
            t == IF "pdf2json" \in l.extractors THEN PdfParseText(l.pages)
                 ELSE Pdf2jsonText(l.pages)
            document == RegistryDataOf(t, now)
            data == IF l.isPaid THEN document ELSE maskForDemo(document)
        IN IF l.error # None
           THEN /\ l.response = Some([success |-> FALSE, data |-> None,
                                      error |-> Some(ExtractionError),
                                      isDemo |-> ~l.isPaid])
                /\ l.webhookCalls =
                     IF l.webhookUrl
                     THEN << [data |-> None, isSuccess |-> FALSE] >> ELSE <<>>
           ELSE /\ l.response = Some([success |-> TRUE, data |-> Some(data),
                                      error |-> None, isDemo |-> ~l.isPaid])
                /\ l.webhookCalls =
                     IF l.webhookUrl
                     THEN << [data |-> data, isSuccess |-> TRUE] >> ELSE <<>>

\* Two calls have finished with success on different uploads, one paid and
\* one demo, both with a notification.
C14_Witness ==
  /\ MaxCalls >= 2
  /\ calls # <<>>
  /\ calls[1].pc = "done" /\ calls[2].pc = "done"
  /\ calls[1].pages # calls[2].pages
  /\ calls[1].response[1].success /\ calls[2].response[1].success
  /\ calls[1].isPaid /\ ~calls[2].isPaid
  /\ Len(calls[1].webhookCalls) = 1 /\ Len(calls[2].webhookCalls) = 1
  /\ calls[1].response[1].data # calls[2].response[1].data


\* C15: the score is exactly 100 when the parser multiset equals a non-empty
\* ground truth, and exactly 0 when the two share no token.
C15_ScoreEndpoints ==
  LET disjoint == \A t \in DOMAIN gtTokens :
                    Count(gtTokens, t) = 0 \/ Count(parserTokens, t) = 0
  IN Total(gtTokens) > 0 =>
       /\ parserTokens = gtTokens => ScoreIs(Score(gtTokens, parserTokens), 100)
       /\ disjoint => ScoreIs(Score(gtTokens, parserTokens), 0)

\* A run was saved whose parser multiset equals a ground truth that holds a
\* token twice.
C15_Witness ==
  /\ history # <<>>
  /\ parserTokens = gtTokens
  /\ \E t \in DOMAIN gtTokens : gtTokens[t] >= 2
  /\ history[Len(history)].overall = Score(gtTokens, parserTokens)

\* C16: with the ground truth fixed, a step in which no parser count falls
\* never lowers the score.
C16_ScoreMonotone ==
  [][(/\ gtTokens' = gtTokens
      /\ Total(gtTokens) > 0
      /\ \A t \in DOMAIN gtTokens :
           Count(parserTokens', t) >= Count(parserTokens, t))
     => ScoreLeq(Score(gtTokens, parserTokens), Score(gtTokens', parserTokens'))]_vars

\* The parser count of a token of the ground truth was raised past the count
\* of the ground truth.
C16_Witness ==
  \E t \in DOMAIN gtTokens :
    gtTokens[t] > 0 /\ Count(parserTokens, t) > gtTokens[t]

\* C17: the history never holds two records of one version; saving a run puts
\* its record in place of the record of that version and leaves the records
\* of the other versions as they were.
C17_OneRecordPerVersion ==
  [][/\ Cardinality(VersionsOf(history')) = Len(history')
     /\ \A v \in Versions :
          SaveBenchmark(v) =>
            /\ [version |-> v, date |-> NextDate(history),
                overall |-> Score(gtTokens, parserTokens)] \in RecordsOf(history')
            /\ {r \in RecordsOf(history') : r.version # v}
                 = {r \in RecordsOf(history) : r.version # v}]_vars

\* More runs were saved than the history holds records: a record was replaced
\* while a record of another version stayed.
C17_Witness ==
  /\ Len(history) >= 2
  /\ \E i \in 1..Len(history) : history[i].date > Len(history)


\* C21: a residency-registration date, a possession-start date or a fixed
\* date in the text of an 을구 row is in the leaseTerm of its entry, with or
\* without a contract date in the row.
C21_LeaseDatesIndependent ==
  fullData # None =>
    LET s == SectionText(text[1], SectionBMatch(text[1]))
        rows == Rows(s, 1, "B")
        entries == fullData[1].sectionB
        Kept(entry, fullMatch, label, field) ==
          LabelledDate(fullMatch, label) # None =>
            /\ entry.leaseTerm # None
            /\ entry.leaseTerm[1][field] = LabelledDate(fullMatch, label)
    IN \A k \in 1..Len(rows) :
         LET fullMatch == Sub(s, rows[k].from, rows[k].to)
         IN /\ Kept(entries[k], fullMatch, ResidentRegLabel,
                    "residentRegistrationDate")
            /\ Kept(entries[k], fullMatch, PossessionLabel, "possessionStartDate")
            /\ Kept(entries[k], fullMatch, FixedDateLabel, "fixedDate")


\* C22: for a text with a '금 N원' pattern parseAmount returns the non-negative
\* integer of the digits of N without the separators, never NaN, also when N
\* is made of commas only; for a text without such a pattern it returns
\* undefined.
C22_ParseAmountValue ==
  amount # None =>
    LET t == amountText
        hits == {i \in 1..Len(t) : AmountAt(t, i) # <<>>}
        n == Sub(t, AmountAt(t, Least(hits))[1], AmountAt(t, Least(hits))[2])
    IN IF hits = {} THEN amount[1] = None
       ELSE /\ amount[1] # None
            /\ amount[1][1] # NaN
            /\ amount[1][1] >= 0
            /\ amount[1][1] = DecimalValue(RemoveCommas(n))


\* C23: POST starts parsing, and so sends a webhook, only for a request that
\* carries a file whose name ends in .pdf in any letter case and whose size
\* is at most 10 MB; a request that fails a check is answered 400 with
\* success false, by the first check it fails in the order missing file,
\* extension, size.
C23_PostValidatesUpload ==
  (request # None /\ request[1].method = "POST") =>
    LET req == request[1]
        hasFile == req.isForm /\ IsFile(req.file)
        isPdf == hasFile /\ endsWith(toLowerCase(req.file[1].name), DotPdf)
        fits == hasFile /\ req.file[1].size <= MaxUploadBytes
        failed == IF ~hasFile THEN Some("file required")
                  ELSE IF ~isPdf THEN Some("only PDF files")
                  ELSE IF ~fits THEN Some("file too large")
                  ELSE None
    IN /\ (pc # "idle" \/ webhookCalls # <<>>) => failed = None
       /\ (routePc = "responded" /\ failed # None) =>
            /\ httpResponse[1].status = 400
            /\ ~httpResponse[1].success
            /\ httpResponse[1].error = failed


\* C24: a call with a webhook URL has sent exactly one webhook when it returns
\* its response, parsing.completed for a success and parsing.failed for a
\* failure, and never more than one; a call without a URL sends none; and the
\* response is the one the parse result gives, whatever became of the delivery.
C24_OneWebhookBeforeResponse ==
  /\ Len(webhookCalls) <= 1
  /\ ~webhookUrl => webhookCalls = <<>>
  /\ response # None =>
       /\ webhookUrl =>
            /\ Len(webhookCalls) = 1
            /\ WebhookPayload(webhookCalls[1].data, webhookCalls[1].isSuccess).event
                 = IF response[1].success THEN "parsing.completed"
                   ELSE "parsing.failed"
       /\ response[1] =
            IF fullData # None
            THEN [success |-> TRUE,
                  data |-> IF isPaid THEN fullData ELSE Some(maskForDemo(fullData[1])),
                  error |-> None, isDemo |-> ~isPaid]
            ELSE [success |-> FALSE, data |-> None,
                  error |-> Some(ExtractionError), isDemo |-> ~isPaid]

\* A call returned a success although the delivery of its webhook failed.
C24_Witness ==
  /\ pc = "done"
  /\ webhookUrl
  /\ webhookResult = Some(FALSE)
  /\ response # None /\ response[1].success
  /\ Len(webhookCalls) = 1


C26_DemoEndpointMasked ==
  (request # None /\ request[1].method = "PUT") =>
    /\ webhookCalls = <<>>
    /\ ~isPaid
    /\ (httpResponse # None /\ httpResponse[1].success) =>
         /\ httpResponse[1].isDemo = Some(TRUE)
         /\ httpResponse[1].data = Some(maskForDemo(fullData[1]))
         /\ httpResponse[1].data # fullData

\* A PUT request with isPaid=true and a webhookUrl was answered with success.
C26_Witness ==
  /\ request # None
  /\ request[1].method = "PUT"
  /\ request[1].isPaid = Some("true")
  /\ request[1].webhookUrl # None
  /\ httpResponse # None
  /\ httpResponse[1].success
  /\ fullData # None /\ fullData[1].sectionA # <<>>


\* C27: after any sequence of login, logout and requests, the two tokens are
\* stored exactly when a login has succeeded and neither a logout nor a 401
\* response has come since; they are stored together or not at all; and a
\* call answered 401, a login included, leaves no token and rejects.
C27_TokensFollowLogin ==
  /\ (storage.access_token # None) = loggedIn
  /\ (storage.access_token # None) = (storage.refresh_token # None)
  /\ (lastCall # None /\ lastCall[1].status = 401) =>
       /\ lastCall[1].result = "rejected"
       /\ storage.access_token = None
       /\ storage.refresh_token = None

\* A login succeeded and a later login was answered 401: no token is left.
C27_Witness ==
  /\ lastCall # None
  /\ lastCall[1].seq >= 2
  /\ lastCall[1].kind = "login"
  /\ lastCall[1].status = 401
  /\ storage.access_token = None
  /\ location = "/login"


\* C28: the status of the payment success page starts as loading and changes
\* at most once.  It is success only after api.confirmPayment was called once
\* with the paymentKey, orderId and amount of the URL, all three present, and
\* after that call and refreshUser both resolved; with a parameter missing it
\* becomes error and api.confirmPayment is never called; once it is success or
\* error it never changes.
C28_StatusSettlesOnce ==
  /\ [](/\ successPc = "mounted" => status = "loading"
        /\ status = "success" =>
             /\ ~ParamsMissing(searchParams)
             /\ confirmCalls =
                  <<[payment_key |-> searchParams.paymentKey[1],
                     order_id |-> searchParams.orderId[1],
                     amount |-> Number(searchParams.amount)]>>
             /\ settled = {"confirmPayment", "refreshUser"}
        /\ confirmCalls # <<>> =>
             /\ searchParams.paymentKey \notin {None, Some("")}
             /\ searchParams.orderId \notin {None, Some("")}
             /\ searchParams.amount \notin {None, Some("")}
        /\ (successPc = "done" /\ ParamsMissing(searchParams)) =>
             /\ status = "error"
             /\ confirmCalls = <<>>)
  /\ [][status # "loading" => status' = status]_vars

C28_Witness ==
  /\ status = "success"
  /\ confirmCalls # <<>>
  /\ confirmCalls[1].amount = 1000
  /\ settled = {"confirmPayment", "refreshUser"}


\* C29: on the pricing page at most one payment attempt is in flight.
\* processingPlan is the plan of the attempt from its start to its end and
\* null when no attempt is in flight, so it is reset whenever an attempt ends;
\* while it is non-null every plan button is disabled.  api.createPayment is
\* never called for an unauthenticated user, for the free plan, for the
\* user's current plan, or before the SDK and the client key are loaded.
C29_OnePaymentAttempt ==
  /\ Cardinality(attempts) <= 1
  /\ \A attempt \in attempts : processingPlan = Some(attempt.planType)
  /\ attempts = {} => processingPlan = None
  /\ processingPlan # None => \A planType \in PlanTypes : Disabled(planType)
  /\ \A i \in 1..Len(createCalls) :
       /\ createCalls[i].user # None
       /\ createCalls[i].plan_type # "free"
       /\ createCalls[i].plan_type # createCalls[i].user[1].plan
       /\ createCalls[i].tossReady
       /\ createCalls[i].clientKey \notin {None, Some("")}

C29_Witness ==
  /\ Len(createCalls) = 2
  /\ logged = <<"log">>
  /\ attempts = {}
  /\ processingPlan = None
  /\ createCalls[1].plan_type # createCalls[2].plan_type


\* C30: maskForDemo is idempotent: for every document d, owner names of
\* length 0, 1 or 2 and owner addresses shorter than 10 characters included,
\* maskForDemo(maskForDemo(d)) equals maskForDemo(d).
C30_MaskIdempotent ==
  Len(maskings) >= 2 => maskings[2] = maskings[1]

====
